---- MODULE Spec2Model ----
(***************************************************************************)
(* Model of the data acquisition pipeline of src/script.js: the memoized   *)
(* release metadata (getReleaseInfo / getAssetDownloadUrl), the per-site   *)
(* event catalog cache (fetchAndParseXtremEvents), the refresh cycle       *)
(* (fetchAndProcessAllSites with its per-site fetchAndParseForecast calls) *)
(* and fetchVariabilityAnalysis.  Every await of the source is a step      *)
(* boundary: the code between two awaits is one atomic action, and the     *)
(* network's answer to a pending fetch is an input of the action that      *)
(* resumes the call.                                                       *)
(*                                                                         *)
(* Lengths are in units of 0.0001 m, so that rounding to 3 decimals is a   *)
(* real operation.  A calendar date YYYY-MM-DD is the integer YYYYMMDD.    *)
(* JavaScript's null / undefined objects are the records with oid 0.       *)
(***************************************************************************)
EXTENDS Integers, Sequences, FiniteSets, TLC

\* ---------------------------------------------------------------- bounds
\* Number of operations the user starts in one run: refresh cycles (the page
\* load and every change of the run date), catalog requests and variability
\* requests of the historical tab.
MaxOps == 2

\* Days of forecast rows a file may carry beyond the NUM_DAYS horizon.
MaxExtraDays == 1

\* Largest water level and bound given to classifyRisk, and largest level of a
\* numeric cell of one event row, in steps of half a metre.
MaxLevel == 3

\* Most lines of a catalog file given to the catalog views.
MaxEvents == 3

\* ------------------------------------------------------------- vocabulary
SiteIds == {"TWL_Baguida_TOGO", "TWL_Accra_GHANA"}

\* parts[parts.length - 1] of siteId.split('_')
ShortId(siteId) ==
    IF siteId = "TWL_Baguida_TOGO" THEN "TOGO" ELSE "GHANA"

\* The run dates the date selector can hold (today and the day before).
RunDates == {20251206, 20251205}

\* A file name: CONFIG.SITES_FILENAME, or one of the three per-site templates.
SitesFilename == [kind |-> "sites_file.json", site |-> "", date |-> 0]
ForecastAssetName(shortId, runDate) ==
    [kind |-> "all_twl_data", site |-> shortId, date |-> runDate]
XtremAssetName(siteId) ==
    [kind |-> "Xtrem_all_var", site |-> siteId, date |-> 0]
VariabilityAssetName(siteId) ==
    [kind |-> "Variability_Analysis", site |-> siteId, date |-> 0]

AllAssets ==
    {SitesFilename}
        \cup {ForecastAssetName(ShortId(s), d) : s \in SiteIds, d \in RunDates}
        \cup {XtremAssetName(s) : s \in SiteIds}
        \cup {VariabilityAssetName(s) : s \in SiteIds}

\* What the release registry may answer to a successful metadata request: a
\* release with every asset, one that lacks the files of one site and the
\* registry file, and one without an assets list.
ReleaseBodies ==
    { [hasAssets |-> TRUE, assets |-> AllAssets],
      [hasAssets |-> TRUE,
       assets |-> {a \in AllAssets : a.site \in {"TOGO", "TWL_Baguida_TOGO"}}],
      [hasAssets |-> FALSE, assets |-> {}] }

\* null
NoRelease == [oid |-> 0, hasAssets |-> FALSE, assets |-> {}]
NoUrl == [origin |-> "null", name |-> SitesFilename]
NoCatalog == [oid |-> 0, count |-> 0, events |-> <<>>]

\* ------------------------------------------------- event catalog CSV parser
\* A CSV cell is [k, v]: a number ("num", v in 0.0001 m), a calendar date
\* ("date", v = YYYYMMDD), some other non-empty text ("text"), the empty
\* string ("empty"); cols[i] of a column that is not there is "undef".
Undefined == [k |-> "undef", v |-> 0]
Num(x) == [k |-> "num", v |-> x]
Date(d) == [k |-> "date", v |-> d]
Text == [k |-> "text", v |-> 0]
Empty == [k |-> "empty", v |-> 0]
\* The text "Infinity" (or a number too large for a double, as "1e999").
Infinite == [k |-> "inf", v |-> 0]

\* The number Infinity, above every level a file can spell out.
Infinity == 2000000000

\* A JavaScript number: ok = FALSE is NaN.
NaN == [ok |-> FALSE, v |-> 0]
Val(x) == [ok |-> TRUE, v |-> x]

\* parseFloat(cols[i]?.trim().replace(/"/g, '')): the leading number of the
\* text; "2020-01-15" parses to 2020.
ParseFloat(cell) ==
    CASE cell.k = "num" -> Val(cell.v)
      [] cell.k = "date" -> Val((cell.v \div 10000) * 10000)
      [] cell.k = "inf" -> Val(Infinity)
      [] OTHER -> NaN

\* x || 0 on a number: NaN and 0 give 0.
OrZero(n) == IF n.ok THEN n.v ELSE 0

Abs(x) == IF x < 0 THEN -x ELSE x

\* parseFloat(x.toFixed(3)): round half away from zero to 3 decimals.
Round3(x) ==
    IF x >= Infinity THEN Infinity
    ELSE (IF x < 0 THEN -1 ELSE 1) * (((Abs(x) + 5) \div 10) * 10)

\* header.findIndex(h => h.includes(concept)); a header cell is the set of
\* the concept words its lower-cased text contains.  0 stands for -1.
FindIndex(header, concept) ==
    IF \E i \in 1..Len(header) : concept \in header[i]
    THEN CHOOSE i \in 1..Len(header) :
            /\ concept \in header[i]
            /\ \A j \in 1..(i - 1) : concept \notin header[j]
    ELSE 0

\* cols[idx]
Col(cols, idx) == IF idx \in 1..Len(cols) THEN cols[idx] ELSE Undefined

\* twlPeak - tide - runup for finite tide and runup.
Residual(twlPeak, tide, runup) ==
    IF twlPeak >= Infinity THEN Infinity ELSE twlPeak - tide - runup

\* Mutant: the components are not compared with 105% of the peak.
CorrectedSurgeNoSumTest(surgeIdx, surge, tide, runup, twlPeak) ==
    IF surgeIdx = 0 \/ surge <= 0
    THEN IF twlPeak.ok THEN Val(Round3(Residual(twlPeak.v, tide, runup)))
         ELSE NaN
    ELSE Val(surge)

\* Mutant: the components are compared with 150% of the peak.
CorrectedSurgeLoose(surgeIdx, surge, tide, runup, twlPeak) ==
    IF \/ surgeIdx = 0
       \/ surge <= 0
       \/ (/\ twlPeak.ok /\ twlPeak.v < Infinity
           /\ 100 * (surge + tide + runup) > 150 * twlPeak.v)
    THEN IF twlPeak.ok THEN Val(Round3(Residual(twlPeak.v, tide, runup)))
         ELSE NaN
    ELSE Val(surge)

\* The surge of a row after the residual correction (lines 874-877); NaN when
\* the residual is computed from an unparseable peak.
CorrectedSurge(surgeIdx, surge, tide, runup, twlPeak) ==
    IF \/ surgeIdx = 0
       \/ surge <= 0
       \/ (/\ twlPeak.ok /\ twlPeak.v < Infinity
           /\ 100 * (surge + tide + runup) > 105 * twlPeak.v)
    THEN IF twlPeak.ok THEN Val(Round3(Residual(twlPeak.v, tide, runup)))
         ELSE NaN
    ELSE Val(surge)

\* One data line of the catalog: the event it would become and whether the
\* acceptance filter of line 879 keeps it.
ParseXtremRow(header, cols) ==
    LET dateIdx == FindIndex(header, "peak_date_time")
        twlIdx == FindIndex(header, "peak_value")
        tideIdx == FindIndex(header, "tide")
        surgeIdx == FindIndex(header, "ssh")
        runupIdx == FindIndex(header, "runup")
        hsIdx == FindIndex(header, "significant")
        durIdx == FindIndex(header, "duration_hours")
        dateStr == Col(cols, dateIdx)
        twlPeak == ParseFloat(Col(cols, twlIdx))
        tide == OrZero(ParseFloat(Col(cols, tideIdx)))
        surge0 == OrZero(ParseFloat(Col(cols, surgeIdx)))
        runup == OrZero(ParseFloat(Col(cols, runupIdx)))
        hsig == OrZero(ParseFloat(Col(cols, hsIdx)))
        durh == OrZero(ParseFloat(Col(cols, durIdx)))
        surge == CorrectedSurge(surgeIdx, surge0, tide, runup, twlPeak)
    IN  [keep |-> /\ dateStr.k \in {"num", "date", "text"}
                  /\ twlPeak.ok /\ twlPeak.v > 0
                  /\ tide >= 0 /\ surge.ok /\ surge.v >= 0 /\ runup >= 0,
         event |-> [id |-> dateStr,
                    twl_components |-> <<tide, surge.v, runup>>,
                    twl_peak |-> twlPeak.v,
                    Hs |-> hsig,
                    dur_h |-> durh]]

\* parseXtremEventCSV(csvText): csv.header is lines[0], csv.rows the other
\* lines of the trimmed text.
parseXtremEventCSV(csv) ==
    IF Len(csv.rows) = 0 THEN <<>>
    ELSE IF \/ FindIndex(csv.header, "peak_date_time") = 0
            \/ FindIndex(csv.header, "peak_value") = 0
    THEN <<>>
    ELSE LET parsed == [i \in 1..Len(csv.rows) |->
                            ParseXtremRow(csv.header, csv.rows[i])]
             kept == SelectSeq(parsed, LAMBDA r : r.keep)
         IN  [i \in 1..Len(kept) |-> kept[i].event]

\* new Date(id).getTime(): a date text gives its day, anything else is taken
\* as Invalid Date (NaN) here.
DateValue(id) == IF id.k = "date" THEN Val(id.v) ELSE NaN

\* (a, b) => new Date(b.id) - new Date(a.id), with NaN read as +0 by sort.
CompareDesc(a, b) ==
    LET da == DateValue(a.id)
        db == DateValue(b.id)
    IN  IF da.ok /\ db.ok THEN db.v - da.v ELSE 0

\* Insert e into the sorted sequence s after every element that does not
\* compare greater than it (stable).
RECURSIVE InsertSorted(_, _)
InsertSorted(s, e) ==
    IF Len(s) = 0 THEN <<e>>
    ELSE IF CompareDesc(s[Len(s)], e) <= 0 THEN Append(s, e)
    ELSE Append(InsertSorted(SubSeq(s, 1, Len(s) - 1), e), s[Len(s)])

\* events.sort(...): Array.prototype.sort is stable.
RECURSIVE SortEvents(_)
SortEvents(events) ==
    IF Len(events) = 0 THEN <<>>
    ELSE InsertSorted(SortEvents(SubSeq(events, 1, Len(events) - 1)),
                      events[Len(events)])

XtremHeader ==
    << {"peak_date_time"}, {"peak_value"}, {"tide"}, {"ssh"}, {"runup"},
       {"significant"}, {"duration_hours"} >>

\* The catalog files the host may serve: three events out of date order with
\* one rejected row, a file whose second row has a date field that is not a
\* date, a file without the peak columns, a header-only file.
CatalogBodies ==
    { [header |-> XtremHeader,
       rows |-> << <<Date(20190301), Num(18000), Num(10000), Num(5000),
                     Num(3000), Num(12000), Num(60000)>>,
                   <<Date(20200101), Num(15000), Num(10000), Num(0),
                     Num(3000), Num(9000), Num(30000)>>,
                   <<Date(20190701), Num(-10000), Num(10000), Num(2000),
                     Num(3000), Num(9000), Num(30000)>>,
                   <<Date(20190701), Num(22000), Num(12000), Num(4000),
                     Num(5000), Num(15000), Num(80000)>> >>],
      [header |-> XtremHeader,
       rows |-> << <<Date(20190301), Num(18000), Num(10000), Num(5000),
                     Num(3000), Num(12000), Num(60000)>>,
                   <<Text, Num(20000), Num(10000), Num(5000),
                     Num(3000), Num(9000), Num(30000)>>,
                   <<Date(20200101), Num(15000), Num(10000), Num(0),
                     Num(3000), Num(9000), Num(30000)>> >>],
      [header |-> << {"date"}, {"tide"}, {"ssh"} >>,
       rows |-> << <<Date(20190301), Num(10000), Num(5000)>> >>],
      [header |-> XtremHeader, rows |-> <<>>] }

\* ------------------------------------------------------ forecast CSV parser
NUM_DAYS == 7
TIME_INTERVAL_MINUTES == 10
DATA_POINTS_PER_HOUR == 60 \div TIME_INTERVAL_MINUTES
DATA_POINTS_PER_DAY == 24 * DATA_POINTS_PER_HOUR

\* Mutant: the bounds are compared with <=.
classifyRiskInclusive(twl, thresh, risk_classes) ==
    IF twl <= thresh THEN "No Flood"
    ELSE IF twl <= risk_classes[1] THEN "Warning"
    ELSE IF twl <= risk_classes[2] THEN "High Risk"
    ELSE "Severe Flood"

\* Mutant: the labels of the two middle bands are exchanged.
classifyRiskSwapped(twl, thresh, risk_classes) ==
    IF twl < thresh THEN "No Flood"
    ELSE IF twl < risk_classes[1] THEN "High Risk"
    ELSE IF twl < risk_classes[2] THEN "Warning"
    ELSE "Severe Flood"

\* Lines 257-262.
classifyRisk(twl, thresh, risk_classes) ==
    IF twl < thresh THEN "No Flood"
    ELSE IF twl < risk_classes[1] THEN "Warning"
    ELSE IF twl < risk_classes[2] THEN "High Risk"
    ELSE "Severe Flood"

DaysInMonth(y, m) ==
    IF m \in {4, 6, 9, 11} THEN 30
    ELSE IF m = 2
         THEN IF (y % 4 = 0 /\ y % 100 # 0) \/ y % 400 = 0 THEN 29 ELSE 28
         ELSE 31

\* The day after the calendar date d (YYYYMMDD).
NextDay(d) ==
    LET y == d \div 10000
        m == (d \div 100) % 100
        dd == d % 100
    IN  IF dd < DaysInMonth(y, m) THEN d + 1
        ELSE IF m < 12 THEN y * 10000 + (m + 1) * 100 + 1
        ELSE (y + 1) * 10000 + 101

RECURSIVE AddDays(_, _)
AddDays(d, n) == IF n = 0 THEN d ELSE AddDays(NextDay(d), n - 1)

\* Lines 108-121: getForecastDate(dayIndex) reads the global
\* SELECTED_RUNTIME_DATE, passed here as runtimeDate.
getForecastDate(runtimeDate, dayIndex) == AddDays(runtimeDate, dayIndex)

\* h.trim().toLowerCase() on the header cells that occur: capitals are
\* folded and the blanks (and the carriage return) around the text removed.
TrimLower(h) ==
    CASE h \in {"Total_Water_Level", " TOTAL_WATER_LEVEL ",
                "total_water_level\r"} -> "total_water_level"
      [] h \in {"Time", " time"} -> "time"
      [] OTHER -> h

\* Mutant: header.findIndex(h => h.trim().toLowerCase().includes(name)) for
\* the column name of the forecast files.
FindContaining(header, name) ==
    LET has(h) == TrimLower(h) \in {name, "total_water_level_m",
                                    "max_total_water_level"}
    IN  IF \E i \in 1..Len(header) : has(header[i])
        THEN CHOOSE i \in 1..Len(header) :
                /\ has(header[i])
                /\ \A j \in 1..(i - 1) : ~has(header[j])
        ELSE 0

\* header.findIndex(h => h.trim().toLowerCase() === name).  0 stands for -1.
FindExact(header, name) ==
    IF \E i \in 1..Len(header) : TrimLower(header[i]) = name
    THEN CHOOSE i \in 1..Len(header) :
            /\ TrimLower(header[i]) = name
            /\ \A j \in 1..(i - 1) : TrimLower(header[j]) # name
    ELSE 0

\* Lines 335-347: the TWL values of the lines that have the column and parse.
RawTWLData(csv, twlColumnIndex) ==
    LET parsed == [i \in 1..Len(csv.rows) |->
                      IF Len(csv.rows[i]) >= twlColumnIndex
                      THEN ParseFloat(csv.rows[i][twlColumnIndex])
                      ELSE NaN]
        kept == SelectSeq(parsed, LAMBDA n : n.ok)
    IN  [i \in 1..Len(kept) |-> kept[i].v]

\* rawTWLData.slice(startIdx, endIdx), 0-based and end-exclusive.
Slice(s, startIdx, endIdx) ==
    IF startIdx >= Len(s) THEN <<>>
    ELSE SubSeq(s, startIdx + 1, IF endIdx > Len(s) THEN Len(s) ELSE endIdx)

\* dayTWLData.reduce((max, item) => Math.max(max, item.twl), acc): the
\* greatest of the start value acc and the values of s.
ReduceMax(s, acc) ==
    LET all == {acc} \cup {s[i] : i \in 1..Len(s)}
    IN  CHOOSE m \in all : \A x \in all : m >= x

\* Mutant: only an empty window stops the daily summaries.
WindowEmpty(dayTWLData) == Len(dayTWLData) = 0

\* Line 356: dayTWLData.length < DATA_POINTS_PER_DAY / 4
WindowTooShort(dayTWLData) == 4 * Len(dayTWLData) < DATA_POINTS_PER_DAY

\* Lines 351-369: the daily summaries from day index i on.
RECURSIVE DailyFrom(_, _, _, _)
DailyFrom(raw, site, runtimeDate, i) ==
    IF i >= NUM_DAYS THEN <<>>
    ELSE LET dayTWLData == Slice(raw, i * DATA_POINTS_PER_DAY,
                                 i * DATA_POINTS_PER_DAY + DATA_POINTS_PER_DAY)
         IN  IF WindowTooShort(dayTWLData) THEN <<>>
             ELSE LET max_twl == ReduceMax(dayTWLData, 0)
                      fullDate == getForecastDate(runtimeDate, i)
                  IN  << [date |-> fullDate % 10000,
                          fullDate |-> fullDate,
                          max_water_level |-> Round3(max_twl),
                          risk |-> classifyRisk(max_twl, site.threshold,
                                                site.risk_class)] >>
                          \o DailyFrom(raw, site, runtimeDate, i + 1)

\* Mutant: the hourly series is cut to the whole days of the input.
HourlyOfWholeDays(raw) ==
    LET n == ((Len(raw) \div DATA_POINTS_PER_DAY) * DATA_POINTS_PER_DAY)
                 \div DATA_POINTS_PER_HOUR
    IN  [k \in 1..n |-> Round3(raw[(k - 1) * DATA_POINTS_PER_HOUR + 1])]

\* Mutant: the hourly series starts at the second retained row.
HourlyOfSecond(raw) ==
    LET n == (Len(raw) + DATA_POINTS_PER_HOUR - 2) \div DATA_POINTS_PER_HOUR
    IN  [k \in 1..n |-> Round3(raw[(k - 1) * DATA_POINTS_PER_HOUR + 2])]

\* Lines 372-374: every DATA_POINTS_PER_HOUR-th retained value, rounded.
HourlyOf(raw) ==
    LET n == (Len(raw) + DATA_POINTS_PER_HOUR - 1) \div DATA_POINTS_PER_HOUR
    IN  [k \in 1..n |-> Round3(raw[(k - 1) * DATA_POINTS_PER_HOUR + 1])]

NoForecast == [daily |-> <<>>, hourly |-> <<>>]

\* Lines 323-377: parseForecastCSV(csvText, site); csv.header is lines[0],
\* csv.rows the other lines of the trimmed text.
parseForecastCSV(csv, site, runtimeDate) ==
    IF Len(csv.rows) = 0 THEN NoForecast
    ELSE IF FindExact(csv.header, "total_water_level") = 0 THEN NoForecast
    ELSE LET raw == RawTWLData(csv, FindExact(csv.header, "total_water_level"))
         IN  [daily |-> DailyFrom(raw, site, runtimeDate, 0),
              hourly |-> HourlyOf(raw)]

\* ------------------------------------------------------------------ state
VARIABLES
    RELEASE_INFO,       \* line 37: the memoized release metadata, or null
    EVENT_DATA_CACHE,   \* line 832: siteId -> catalog object, or nothing
    ev,                 \* the fetchAndParseXtremEvents calls of the run
    nextOid,            \* identity of the next object the program creates
    metaRequests,       \* history: release-metadata requests issued
    metaOk,             \* history: metadata requests answered with success
    metaFailed,         \* history: metadata requests that failed
    catFetches,         \* history: siteId -> catalog fetches issued
    SELECTED_RUNTIME_DATE,  \* line 126: the run date of the date selector
    SELECTED_RUN_DATE,  \* line 287: a global script.js reads, never declares
    SITES,              \* line 136: the site list with its forecast data
    sitesBy,            \* history: the refresh cycle that assigned SITES
    errorMessage,       \* the error shown in #forecast-table-body
    cyc,                \* the fetchAndProcessAllSites calls of the run
    va,                 \* the fetchVariabilityAnalysis calls of the run
    parsed,             \* a call of parseForecastCSV: its text and result
    xtrem,              \* a call of parseXtremEventCSV: its text and result
    risk,               \* calls of classifyRisk: arguments and results
    view                \* a call of a catalog view: arguments and result

vars ==
    << RELEASE_INFO, EVENT_DATA_CACHE, ev, nextOid, metaRequests, metaOk,
       metaFailed, catFetches, SELECTED_RUNTIME_DATE, SELECTED_RUN_DATE,
       SITES, sitesBy, errorMessage, cyc, va, parsed, xtrem, risk, view >>

\* The calls of the pure functions, observed on their own.
callVars == << parsed, xtrem, risk, view >>

eventVars == << EVENT_DATA_CACHE, ev, catFetches >>

refreshVars ==
    << SELECTED_RUNTIME_DATE, SELECTED_RUN_DATE, SITES, sitesBy,
       errorMessage, cyc >>

EvCalls == 1..MaxOps
VarCalls == 1..MaxOps
Cycles == 1..MaxOps

\* The operations started so far.
Started ==
    Cardinality({k \in Cycles : cyc[k].pc # "idle"})
        + Cardinality({c \in EvCalls : ev[c].pc # "idle"})
        + Cardinality({c \in VarCalls : va[c].pc # "idle"})

releaseVars == << RELEASE_INFO, metaRequests, metaOk, metaFailed >>


\* ---------------------------------------------------------- AssetResolver
\* Mutant: a failed metadata fetch is remembered and not retried.
ReleaseInfoCachedOrFailed(info) == info.oid # 0 \/ metaFailed > 0

\* Line 44: if (RELEASE_INFO) return RELEASE_INFO;
ReleaseInfoCached(info) == info.oid # 0

\* What a metadata request can be answered with: a release body, or a failure
\* (a non-success status or a network fault; both end in the catch, line 57).
MetaAnswers ==
    {[ok |-> TRUE, body |-> b] : b \in ReleaseBodies}
        \cup {[ok |-> FALSE, body |-> [hasAssets |-> FALSE, assets |-> {}]]}

\* Lines 55-56: the object response.json() creates.
NewRelease(oid, body) ==
    [oid |-> oid, hasAssets |-> body.hasAssets, assets |-> body.assets]

\* Lines 50-62: RELEASE_INFO after the answer to a metadata request.
ReleaseAfterAnswer(current, oid, ans) ==
    IF ans.ok THEN NewRelease(oid, ans.body) ELSE current

\* Lines 50-62: what getReleaseInfo returns after the answer.
ReleaseReturned(oid, ans) ==
    IF ans.ok THEN NewRelease(oid, ans.body) ELSE NoRelease

\* Mutant: the asset is matched by its template, whatever the site and the
\* date in its name.
AssetUrlByKind(info, filename) ==
    IF info.oid = 0 \/ ~info.hasAssets THEN NoUrl
    ELSE IF \E a \in info.assets : a.kind = filename.kind
         THEN [origin |-> "github",
               name |-> CHOOSE a \in info.assets : a.kind = filename.kind]
         ELSE NoUrl

\* Lines 70-81: getAssetDownloadUrl once getReleaseInfo has returned info.
AssetUrl(info, filename) ==
    IF info.oid = 0 \/ ~info.hasAssets THEN NoUrl
    ELSE IF filename \in info.assets
         THEN [origin |-> "github", name |-> filename]
         ELSE NoUrl

\* What getAssetDownloadUrl returned, as the callers test it: null or a URL.
Resolved(url) == IF url = NoUrl THEN "null" ELSE "github"

\* Lines 43-51: getReleaseInfo up to its first await: the position of the
\* caller (the memo is returned, or a request is in flight).
ReleasePc == IF ReleaseInfoCached(RELEASE_INFO) THEN "resolving" ELSE "awaitMeta"

\* Lines 43-51 as a step on the shared state.
StartGetReleaseInfo ==
    /\ metaRequests' =
          IF ReleaseInfoCached(RELEASE_INFO) THEN metaRequests
          ELSE metaRequests + 1
    /\ UNCHANGED << RELEASE_INFO, metaOk, metaFailed >>

\* Lines 52-62 as a step on the shared state.
AnswerGetReleaseInfo(ans) ==
    /\ RELEASE_INFO' = ReleaseAfterAnswer(RELEASE_INFO, nextOid, ans)
    /\ metaOk' = IF ans.ok THEN metaOk + 1 ELSE metaOk
    /\ metaFailed' = IF ans.ok THEN metaFailed ELSE metaFailed + 1
    /\ UNCHANGED metaRequests

\* ------------------------------------------------------ EventCatalogCache
\* Mutant: an empty catalog in the cache counts as a miss.
CacheHitIfEvents(cache, siteId) == cache[siteId].count > 0

\* Line 898: if (EVENT_DATA_CACHE[siteId])
CacheHit(cache, siteId) == cache[siteId].oid # 0

\* Mutant: a failure stores and returns nothing.
EmptyCatalogNotStored(oid) == NoCatalog

\* { count: 0, events: [] }
EmptyCatalog(oid) == [oid |-> oid, count |-> 0, events |-> <<>>]

\* Lines 922-931: the catalog built from a downloaded file.
CatalogOf(oid, csv) ==
    LET events == SortEvents(parseXtremEventCSV(csv))
    IN  [oid |-> oid, count |-> Len(events), events |-> events]

\* What the host can answer to the fetch of a catalog file.
CatalogAnswers ==
    {[kind |-> "ok", body |-> b] : b \in CatalogBodies}
        \cup {[kind |-> k, body |-> [header |-> <<>>, rows |-> <<>>]] :
                k \in {"http", "net"}}

\* Lines 913-940: the catalog a call stores and returns for an answer.
CatalogAfterAnswer(oid, ans) ==
    IF ans.kind = "ok" THEN CatalogOf(oid, ans.body) ELSE EmptyCatalog(oid)

IdleEv ==
    [pc |-> "idle", site |-> "", info |-> NoRelease, resolved |-> "",
     fetched |-> <<>>, result |-> NoCatalog, outcome |-> "", after |-> {}]

\* The calls that have returned.
EvDone == {c \in EvCalls : ev[c].pc = "done"}

\* Lines 897-905: a call of fetchAndParseXtremEvents(siteId) (getSiteEvents,
\* the three catalog views and the site selector all enter here) up to its
\* first await.
EvStart(c, siteId) ==
    /\ Started < MaxOps
    /\ UNCHANGED callVars
    /\ ev[c].pc = "idle"
    /\ \A d \in EvCalls : d < c => ev[d].pc # "idle"
    /\ IF CacheHit(EVENT_DATA_CACHE, siteId)
       THEN /\ ev' = [ev EXCEPT ![c] =
                        [IdleEv EXCEPT !.pc = "done", !.site = siteId,
                                       !.result = EVENT_DATA_CACHE[siteId],
                                       !.outcome = "hit", !.after = EvDone]]
            /\ UNCHANGED releaseVars
       ELSE /\ ev' = [ev EXCEPT ![c] =
                        [IdleEv EXCEPT !.pc = ReleasePc, !.site = siteId,
                                       !.info = RELEASE_INFO,
                                       !.after = EvDone]]
            /\ StartGetReleaseInfo
    /\ UNCHANGED << EVENT_DATA_CACHE, nextOid, catFetches, refreshVars, va >>

\* Lines 52-62 within the call: the metadata request is answered.
EvMetaAnswer(c, ans) ==
    /\ ev[c].pc = "awaitMeta"
    /\ UNCHANGED callVars
    /\ AnswerGetReleaseInfo(ans)
    /\ ev' = [ev EXCEPT ![c].pc = "resolving",
                        ![c].info = ReleaseReturned(nextOid, ans)]
    /\ nextOid' = IF ans.ok THEN nextOid + 1 ELSE nextOid
    /\ UNCHANGED << EVENT_DATA_CACHE, catFetches, refreshVars, va >>

\* Lines 905-914: the URL is known; an absent asset ends the call with an
\* empty catalog, otherwise the catalog fetch is issued.
EvResolved(c) ==
    /\ ev[c].pc = "resolving"
    /\ UNCHANGED callVars
    /\ LET url == AssetUrl(ev[c].info, XtremAssetName(ev[c].site))
       IN  IF url = NoUrl
           THEN /\ EVENT_DATA_CACHE' =
                      [EVENT_DATA_CACHE EXCEPT
                          ![ev[c].site] = EmptyCatalog(nextOid)]
                /\ ev' = [ev EXCEPT ![c].pc = "done",
                                    ![c].info = NoRelease,
                                    ![c].resolved = Resolved(url),
                                    ![c].result = EmptyCatalog(nextOid),
                                    ![c].outcome = "notfound"]
                /\ nextOid' = nextOid + 1
                /\ UNCHANGED catFetches
           ELSE /\ ev' = [ev EXCEPT ![c].pc = "awaitFetch",
                                    ![c].info = NoRelease,
                                    ![c].resolved = Resolved(url),
                                    ![c].fetched = <<url.origin>>]
                /\ catFetches' =
                      [catFetches EXCEPT ![ev[c].site] = @ + 1]
                /\ UNCHANGED << EVENT_DATA_CACHE, nextOid >>
    /\ UNCHANGED << releaseVars, refreshVars, va >>

\* Lines 914-940: the catalog fetch is answered; the call stores and returns
\* the parsed catalog, or the empty one after a failure.
EvFetchAnswer(c, ans) ==
    /\ ev[c].pc = "awaitFetch"
    /\ UNCHANGED callVars
    /\ EVENT_DATA_CACHE' =
          [EVENT_DATA_CACHE EXCEPT
              ![ev[c].site] = CatalogAfterAnswer(nextOid, ans)]
    /\ ev' = [ev EXCEPT ![c].pc = "done",
                        ![c].result = CatalogAfterAnswer(nextOid, ans),
                        ![c].outcome = ans.kind]
    /\ nextOid' = nextOid + 1
    /\ UNCHANGED << releaseVars, catFetches, refreshVars, va >>

\* Mutant: an id that no cached event has shows the first event.
fetchEventComponentDataOrFirst(cache, siteId, eventId) ==
    IF siteId \notin DOMAIN cache \/ cache[siteId].oid = 0
    THEN [components |-> <<>>, contributions |-> <<>>]
    ELSE LET events == cache[siteId].events
             found == {i \in 1..Len(events) : events[i].id = eventId}
         IN  IF Len(events) = 0
             THEN [components |-> <<>>, contributions |-> <<>>]
             ELSE LET event == IF found = {} THEN events[1]
                               ELSE events[CHOOSE i \in found :
                                              \A j \in found : i <= j]
                  IN  [components |-> <<"Tide ", "SSH", "Wave Runup">>,
                       contributions |-> event.twl_components,
                       twlPeak |-> event.twl_peak]

\* Lines 1022-1035: fetchEventComponentData(siteId, eventId) on the cache.
fetchEventComponentData(cache, siteId, eventId) ==
    IF siteId \notin DOMAIN cache \/ cache[siteId].oid = 0
    THEN [components |-> <<>>, contributions |-> <<>>]
    ELSE LET events == cache[siteId].events
             found == {i \in 1..Len(events) : events[i].id = eventId}
         IN  IF found = {}
             THEN [components |-> <<>>, contributions |-> <<>>]
             ELSE LET event == events[CHOOSE i \in found :
                                         \A j \in found : i <= j]
                  IN  [components |-> <<"Tide ", "SSH", "Wave Runup">>,
                       contributions |-> event.twl_components,
                       twlPeak |-> event.twl_peak]

\* The sites and event ids the event selector may pass: those of the
\* catalog files, a site that is not in the registry and a date that no
\* file holds.
ViewSites == SiteIds \cup {"TWL_Unknown"}
EventIds ==
    {Date(20190301), Date(20190701), Date(20200101), Date(20210101), Text}

\* Line 1285: a call of fetchEventComponentData(siteId, eventId); the
\* function has no await and runs to its return.
FetchEventComponentData(siteId, eventId) ==
    /\ view.pc = "none"
    /\ view' = [view EXCEPT
                  !.pc = "returned",
                  !.fn = "fetchEventComponentData",
                  !.site = siteId,
                  !.eventId = eventId,
                  !.result = fetchEventComponentData(EVENT_DATA_CACHE,
                                                     siteId, eventId)]
    /\ UNCHANGED << releaseVars, eventVars, refreshVars, nextOid, va,
                    parsed, xtrem, risk >>

\* The day before the calendar date d (YYYYMMDD).
PrevDay(d) ==
    LET y == d \div 10000
        m == (d \div 100) % 100
        dd == d % 100
    IN  IF dd > 1 THEN d - 1
        ELSE IF m > 1 THEN y * 10000 + (m - 1) * 100 + DaysInMonth(y, m - 1)
        ELSE (y - 1) * 10000 + 1231

\* new Date(event.id) read with the local-time getters: a date-only text is
\* midnight UTC, which is the evening before in a time zone west of
\* Greenwich (west).  Any other text is Invalid Date.
LocalDay(id, west) ==
    IF id.k # "date" THEN NaN
    ELSE Val(IF west THEN PrevDay(id.v) ELSE id.v)

\* new Date(event.id).getFullYear()
GetFullYear(id, west) ==
    IF LocalDay(id, west).ok THEN Val(LocalDay(id, west).v \div 10000)
    ELSE NaN

\* new Date(event.id).getMonth(), 0 to 11
GetMonth(id, west) ==
    IF LocalDay(id, west).ok
    THEN Val(((LocalDay(id, west).v \div 100) % 100) - 1)
    ELSE NaN

\* Mutant: the tide column holds the surge of the events.
fetchJointProbabilityDataSurge(eventData) ==
    LET events == eventData.events
        n == Len(events)
    IN  [tide_sla |-> [i \in 1..n |-> events[i].twl_components[2]],
         hs |-> [i \in 1..n |-> events[i].Hs],
         twl_peak |-> [i \in 1..n |-> events[i].twl_peak],
         dates |-> [i \in 1..n |-> events[i].id],
         dur_h |-> [i \in 1..n |-> events[i].dur_h]]

\* Lines 955-969: fetchJointProbabilityData once the catalog has arrived.
fetchJointProbabilityData(eventData) ==
    IF eventData.count = 0
    THEN [tide_sla |-> <<>>, hs |-> <<>>, twl_peak |-> <<>>,
          dates |-> <<>>, dur_h |-> <<>>]
    ELSE LET events == eventData.events
             n == Len(events)
         IN  [tide_sla |-> [i \in 1..n |-> events[i].twl_components[1]],
              hs |-> [i \in 1..n |-> events[i].Hs],
              twl_peak |-> [i \in 1..n |-> events[i].twl_peak],
              dates |-> [i \in 1..n |-> events[i].id],
              dur_h |-> [i \in 1..n |-> events[i].dur_h]]

\* Line 976
months ==
    << "Jan", "Feb", "Mar", "Apr", "May", "Jun", "Jul", "Aug", "Sep", "Oct",
       "Nov", "Dec" >>

\* Lines 972-989: fetchSeasonalData once the catalog has arrived.  For an
\* event without a valid date months[NaN] is undefined, monthlyTWL[undefined]
\* is undefined, and the push of line 985 throws a TypeError.
fetchSeasonalData(eventData, west) ==
    LET events == eventData.events
        monthName(e) == months[GetMonth(e.id, west).v + 1]
    IN  IF \E i \in 1..Len(events) : ~GetMonth(events[i].id, west).ok
        THEN [outcome |-> "TypeError",
              monthlyTWL |-> [m \in {} |-> <<>>]]
        ELSE [outcome |-> "returned",
              monthlyTWL |->
                 [m \in {months[k] : k \in 1..12} |->
                    LET mine == SelectSeq(events,
                                          LAMBDA e : monthName(e) = m)
                    IN  [i \in 1..Len(mine) |-> mine[i].twl_peak]]]

\* The numbers of S in ascending order.
RECURSIVE Ascending(_)
Ascending(S) ==
    IF S = {} THEN <<>>
    ELSE LET least == CHOOSE x \in S : \A y \in S : x <= y
         IN  <<least>> \o Ascending(S \ {least})

\* Lines 992-1019: fetchInterannualData once the catalog has arrived.
\* Object.keys lists the year keys in ascending order and the key "NaN" of
\* the events without a valid date after them; the comparator a - b is NaN
\* for that key, so the sort leaves the order.
fetchInterannualData(eventData, west) ==
    LET events == eventData.events
        year(e) == GetFullYear(e.id, west)
        valid == {year(events[i]).v :
                     i \in {j \in 1..Len(events) : year(events[j]).ok}}
        sortedYears ==
            [i \in 1..Cardinality(valid) |-> Val(Ascending(valid)[i])]
              \o (IF \E i \in 1..Len(events) : ~year(events[i]).ok
                  THEN <<NaN>> ELSE <<>>)
        of(y) == SelectSeq(events, LAMBDA e : year(e) = y)
    IN  [years |-> sortedYears,
         max_twl |-> [i \in 1..Len(sortedYears) |->
                        LET mine == of(sortedYears[i])
                        IN  Round3(ReduceMax(
                               [k \in 1..Len(mine) |-> mine[k].twl_peak],
                               mine[1].twl_peak))],
         events_count |-> [i \in 1..Len(sortedYears) |->
                             Len(of(sortedYears[i]))]]

\* ----------------------------------------------------------- refresh cycle

\* new Date() of the run (line 125) and formatDateToYYYYMMDD(getTargetDate(3)).
Today == 20251206
MinDate == 20251203

\* What the date selector can be set to: RunDates and a day after today.
DateInputs == RunDates \cup {20251207}

\* The site registry file: the entry of each site id.
RawSite(id) ==
    IF id = "TWL_Baguida_TOGO"
    THEN [city |-> "Baguida", threshold |-> 20000,
          risk_class |-> <<25000, 30000>>]
    ELSE [city |-> "Accra", threshold |-> 18000,
          risk_class |-> <<22000, 26000>>]

\* Lines 264-279: transformRawSites(rawData); rawData is the sequence of the
\* registry's keys.  The display fields lat and lng are left out, and
\* forecastData (null here) is added when fetchAndParseForecast spreads the
\* site into its result.
transformRawSites(rawData) ==
    [i \in 1..Len(rawData) |->
        [id |-> rawData[i],
         name |-> RawSite(rawData[i]).city,
         threshold |-> RawSite(rawData[i]).threshold,
         risk_class |-> RawSite(rawData[i]).risk_class]]

\* What the host can answer to a fetch of the registry: a registry (empty, or
\* of two sites), a non-success status, or a network fault.
RegistryBodies ==
    { <<>>, <<"TWL_Baguida_TOGO", "TWL_Accra_GHANA">> }

RegistryAnswers ==
    {[kind |-> "ok", body |-> b] : b \in RegistryBodies}
        \cup {[kind |-> k, body |-> <<>>] : k \in {"http", "net"}}

\* A forecast file of n ten-minute samples rising from base.
ForecastFile(n, base) ==
    [header |-> <<"time", "total_water_level">>,
     rows |-> [i \in 1..n |->
                 <<Text, IF i = 3 THEN Text ELSE Num(base + 55 * i)>>]]

\* What the host can answer to a fetch of a forecast file: a file of a bit
\* more than a quarter of a day, or a failure.
ForecastBodies == { ForecastFile(40, 18003) }

ForecastAnswers ==
    {[kind |-> "ok", body |-> b] : b \in ForecastBodies}
        \cup {[kind |-> k, body |-> [header |-> <<>>, rows |-> <<>>]] :
                k \in {"http", "net"}}

NoMessage == [kind |-> "none", url |-> "", status |-> ""]

\* Lines 420 and 426: `Failed to load ... Final URL tried: ${finalLoadUrl}.
\* Status: ${status}`.
LoadError(url, status) == [kind |-> "load", url |-> url, status |-> status]

\* The message of an error the code does not build itself: the TypeError of a
\* failed fetch, the ReferenceError of line 287, the Error of line 458.
OtherError(kind) == [kind |-> kind, url |-> "", status |-> ""]

IdleSub ==
    [pc |-> "none", runDate |-> 0, resolved |-> "", fetched |-> <<>>,
     forecastData |-> NoForecast, outcome |-> ""]

IdleCycle ==
    [pc |-> "idle", resolved |-> "", fetched |-> <<>>, sites |-> <<>>,
     sub |-> [s \in SiteIds |-> IdleSub], message |-> NoMessage]

SiteIdsOf(sites) == {sites[i].id : i \in 1..Len(sites)}

\* The cycle that the next call of fetchAndProcessAllSites is.
NextCycle(k) ==
    /\ Started < MaxOps
    /\ cyc[k].pc = "idle"
    /\ \A j \in Cycles : j < k => cyc[j].pc # "idle"

\* Mutant: finalSitesUrl = githubSitesUrl, without the local path.
FinalSitesUrlNoLocal(githubSitesUrl) == githubSitesUrl.origin

\* Lines 389-395: finalSitesUrl = githubSitesUrl || localSitesUrl.
FinalSitesUrl(githubSitesUrl) ==
    IF githubSitesUrl = NoUrl THEN "local" ELSE githubSitesUrl.origin

\* Lines 389-404 once getReleaseInfo has returned info: the registry fetch is
\* issued.  (Nothing shared is read or written between the return of the
\* metadata and the fetch, so the two are one step.)
FetchSites(c, info) ==
    LET githubSitesUrl == AssetUrl(info, SitesFilename)
    IN  [c EXCEPT !.pc = "awaitSites",
                  !.resolved = Resolved(githubSitesUrl),
                  !.fetched = <<FinalSitesUrl(githubSitesUrl)>>]

\* Lines 382-404: fetchAndProcessAllSites up to its first pending request:
\* the metadata request, or with memoized metadata the registry fetch.
StartCycle(k) ==
    /\ cyc' = [cyc EXCEPT ![k] =
                  IF ReleaseInfoCached(RELEASE_INFO)
                  THEN FetchSites(cyc[k], RELEASE_INFO)
                  ELSE [cyc[k] EXCEPT !.pc = "awaitMeta"]]
    /\ StartGetReleaseInfo

\* Lines 1473-1486: window.onload starts the first refresh.
OnLoad ==
    /\ NextCycle(1)
    /\ UNCHANGED callVars
    /\ StartCycle(1)
    /\ UNCHANGED << SELECTED_RUNTIME_DATE, SELECTED_RUN_DATE, SITES, sitesBy,
                    errorMessage, nextOid, eventVars, va >>

\* Lines 188-211: the change listener of the date selector.  A date outside
\* the range is refused; otherwise the run date is set and a new refresh
\* starts, whatever refresh is still in flight.
DateChange(k, newDate) ==
    /\ cyc[1].pc # "idle"
    /\ UNCHANGED callVars
    /\ NextCycle(k)
    /\ IF newDate > Today \/ newDate < MinDate
       THEN UNCHANGED << SELECTED_RUNTIME_DATE, cyc, releaseVars >>
       ELSE /\ SELECTED_RUNTIME_DATE' = newDate
            /\ StartCycle(k)
    /\ UNCHANGED << SELECTED_RUN_DATE, SITES, sitesBy, errorMessage, nextOid,
                    eventVars, va >>

\* Lines 52-62 and 389-404 within the cycle: the metadata request is answered
\* and the registry fetch issued.
RefMetaAnswer(k, ans) ==
    /\ cyc[k].pc = "awaitMeta"
    /\ UNCHANGED callVars
    /\ AnswerGetReleaseInfo(ans)
    /\ cyc' = [cyc EXCEPT ![k] =
                  FetchSites(cyc[k], ReleaseReturned(nextOid, ans))]
    /\ nextOid' = IF ans.ok THEN nextOid + 1 ELSE nextOid
    /\ UNCHANGED << SELECTED_RUNTIME_DATE, SELECTED_RUN_DATE, SITES, sitesBy,
                    errorMessage, eventVars, va >>

\* Lines 461-467: the catch of fetchAndProcessAllSites.
Fatal(k, message) ==
    /\ cyc' = [cyc EXCEPT ![k].pc = "fatal", ![k].message = message]
    /\ errorMessage' = message

\* Lines 293-305 once getReleaseInfo has returned info: an absent asset ends
\* the call with empty data, otherwise the file is fetched.
FetchForecast(sub, info, siteId) ==
    LET finalUrl ==
            AssetUrl(info, ForecastAssetName(ShortId(siteId), sub.runDate))
    IN  IF finalUrl = NoUrl
        THEN [sub EXCEPT !.pc = "done", !.resolved = Resolved(finalUrl),
                         !.outcome = "notfound"]
        ELSE [sub EXCEPT !.pc = "awaitFetch", !.resolved = Resolved(finalUrl),
                         !.fetched = <<finalUrl.origin>>]

\* Lines 284-305 for one site: fetchAndParseForecast up to its first pending
\* request.
StartedSub(siteId) ==
    IF ReleaseInfoCached(RELEASE_INFO)
    THEN FetchForecast([IdleSub EXCEPT !.runDate = SELECTED_RUN_DATE],
                       RELEASE_INFO, siteId)
    ELSE [IdleSub EXCEPT !.pc = "awaitMeta", !.runDate = SELECTED_RUN_DATE]

\* Lines 431-438 once the registry is in hand: transformRawSites, then every
\* fetchAndParseForecast is started and the join awaited.  An undeclared
\* SELECTED_RUN_DATE makes every call reject at line 287, and the join with
\* them; an empty registry joins at once, assigns SITES and throws (line 458).
Launch(k, rawData) ==
    LET tempSites == transformRawSites(rawData)
    IN  IF Len(tempSites) = 0
        THEN /\ SITES' = <<>>
             /\ sitesBy' = k
             /\ Fatal(k, OtherError("nosites"))
             /\ UNCHANGED releaseVars
        ELSE IF SELECTED_RUN_DATE = 0
        THEN /\ Fatal(k, OtherError("reference"))
             /\ UNCHANGED << SITES, sitesBy, releaseVars >>
        ELSE /\ cyc' = [cyc EXCEPT
                          ![k].pc = "awaitForecasts",
                          ![k].sites = tempSites,
                          ![k].sub = [s \in SiteIds |->
                                        IF s \in SiteIdsOf(tempSites)
                                        THEN StartedSub(s) ELSE IdleSub]]
             /\ metaRequests' =
                   IF ReleaseInfoCached(RELEASE_INFO) THEN metaRequests
                   ELSE metaRequests + Len(tempSites)
             /\ UNCHANGED << RELEASE_INFO, metaOk, metaFailed, SITES, sitesBy,
                             errorMessage >>

\* Lines 404-431: the first fetch of the registry is answered.
RefSitesAnswer(k, ans) ==
    /\ cyc[k].pc = "awaitSites"
    /\ UNCHANGED callVars
    /\ CASE ans.kind = "net" ->
              /\ Fatal(k, OtherError("network"))
              /\ UNCHANGED << SITES, sitesBy, releaseVars >>
         [] ans.kind = "http" /\ cyc[k].fetched = <<"github">> ->
              /\ cyc' = [cyc EXCEPT ![k].pc = "awaitLocal",
                                    ![k].fetched = <<"github", "local">>]
              /\ UNCHANGED << SITES, sitesBy, errorMessage, releaseVars >>
         [] ans.kind = "http" /\ cyc[k].fetched # <<"github">> ->
              /\ Fatal(k, LoadError("local", "404"))
              /\ UNCHANGED << SITES, sitesBy, releaseVars >>
         [] ans.kind = "ok" -> Launch(k, ans.body)
    /\ UNCHANGED << SELECTED_RUNTIME_DATE, SELECTED_RUN_DATE, nextOid,
                    eventVars, va >>

\* Lines 415-431: the fetch of the local path is answered.
RefLocalAnswer(k, ans) ==
    /\ cyc[k].pc = "awaitLocal"
    /\ UNCHANGED callVars
    /\ CASE ans.kind = "net" ->
              /\ Fatal(k, OtherError("network"))
              /\ UNCHANGED << SITES, sitesBy, releaseVars >>
         [] ans.kind = "http" ->
              /\ Fatal(k, LoadError("local", "404"))
              /\ UNCHANGED << SITES, sitesBy, releaseVars >>
         [] ans.kind = "ok" -> Launch(k, ans.body)
    /\ UNCHANGED << SELECTED_RUNTIME_DATE, SELECTED_RUN_DATE, nextOid,
                    eventVars, va >>

\* Lines 52-62 and 293-305 within fetchAndParseForecast of site s of cycle k:
\* the metadata request is answered and the forecast fetch issued.
FcMetaAnswer(k, s, ans) ==
    /\ cyc[k].pc = "awaitForecasts"
    /\ UNCHANGED callVars
    /\ cyc[k].sub[s].pc = "awaitMeta"
    /\ AnswerGetReleaseInfo(ans)
    /\ cyc' = [cyc EXCEPT ![k].sub[s] =
                  FetchForecast(cyc[k].sub[s], ReleaseReturned(nextOid, ans), s)]
    /\ nextOid' = IF ans.ok THEN nextOid + 1 ELSE nextOid
    /\ UNCHANGED << SELECTED_RUNTIME_DATE, SELECTED_RUN_DATE, SITES, sitesBy,
                    errorMessage, eventVars, va >>

\* The site record of id in the cycle's tempSites.
SiteOf(sites, id) ==
    sites[CHOOSE i \in 1..Len(sites) : sites[i].id = id]

\* Lines 305-320: forecastData of the call for an answer to its fetch; the
\* parser reads SELECTED_RUNTIME_DATE as it is when the answer arrives.
ForecastAfterAnswer(ans, site, runtimeDate) ==
    IF ans.kind = "ok" THEN parseForecastCSV(ans.body, site, runtimeDate)
    ELSE NoForecast

FcFetchAnswer(k, s, ans) ==
    /\ cyc[k].pc = "awaitForecasts"
    /\ UNCHANGED callVars
    /\ cyc[k].sub[s].pc = "awaitFetch"
    /\ cyc' = [cyc EXCEPT
                 ![k].sub[s].pc = "done",
                 ![k].sub[s].outcome = ans.kind,
                 ![k].sub[s].forecastData =
                     ForecastAfterAnswer(ans, SiteOf(cyc[k].sites, s),
                                         SELECTED_RUNTIME_DATE)]
    /\ UNCHANGED << SELECTED_RUNTIME_DATE, SELECTED_RUN_DATE, SITES, sitesBy,
                    errorMessage, nextOid, releaseVars, eventVars, va >>

\* Mutant: a site whose new forecast is empty keeps the entry SITES had.
ResultsMerged(c) ==
    [i \in 1..Len(c.sites) |->
        IF c.sub[c.sites[i].id].forecastData = NoForecast /\ i <= Len(SITES)
        THEN SITES[i]
        ELSE [id |-> c.sites[i].id,
              name |-> c.sites[i].name,
              threshold |-> c.sites[i].threshold,
              risk_class |-> c.sites[i].risk_class,
              forecastData |-> c.sub[c.sites[i].id].forecastData]]

\* { ...site, forecastData } of every call, in the order of tempSites.
Results(c) ==
    [i \in 1..Len(c.sites) |->
        [id |-> c.sites[i].id,
         name |-> c.sites[i].name,
         threshold |-> c.sites[i].threshold,
         risk_class |-> c.sites[i].risk_class,
         forecastData |-> c.sub[c.sites[i].id].forecastData]]

\* Lines 436-456: every call has returned, the join resolves and SITES is
\* assigned.
RefJoin(k) ==
    /\ cyc[k].pc = "awaitForecasts"
    /\ UNCHANGED callVars
    /\ \A s \in SiteIdsOf(cyc[k].sites) : cyc[k].sub[s].pc = "done"
    /\ SITES' = Results(cyc[k])
    /\ sitesBy' = k
    /\ cyc' = [cyc EXCEPT ![k].pc = "done"]
    /\ UNCHANGED << SELECTED_RUNTIME_DATE, SELECTED_RUN_DATE, errorMessage,
                    nextOid, releaseVars, eventVars, va >>

\* ----------------------------------------------------- variability analysis
\* What the host can answer to the fetch of a variability file.
VariabilityAnswers == {"ok", "http", "net"}

IdleVar ==
    [pc |-> "idle", site |-> "", resolved |-> "", fetched |-> <<>>,
     outcome |-> ""]

\* Lines 1071-1077 once getReleaseInfo has returned info: an absent asset
\* throws, otherwise the file is fetched from the release.
FetchVariability(call, info) ==
    LET url == AssetUrl(info, VariabilityAssetName(call.site))
    IN  IF url = NoUrl
        THEN [call EXCEPT !.pc = "rejected", !.resolved = Resolved(url),
                          !.outcome = "notfound"]
        ELSE [call EXCEPT !.pc = "awaitFetch", !.resolved = Resolved(url),
                          !.fetched = <<url.origin>>]

\* Lines 1067-1077: fetchVariabilityAnalysis(siteId) up to its first pending
\* request.
VarStart(c, siteId) ==
    /\ Started < MaxOps
    /\ UNCHANGED callVars
    /\ va[c].pc = "idle"
    /\ \A d \in VarCalls : d < c => va[d].pc # "idle"
    /\ va' = [va EXCEPT ![c] =
                IF ReleaseInfoCached(RELEASE_INFO)
                THEN FetchVariability([IdleVar EXCEPT !.site = siteId],
                                      RELEASE_INFO)
                ELSE [IdleVar EXCEPT !.pc = "awaitMeta", !.site = siteId]]
    /\ StartGetReleaseInfo
    /\ UNCHANGED << nextOid, eventVars, refreshVars >>

\* Lines 52-62 and 1071-1077 within the call.
VarMetaAnswer(c, ans) ==
    /\ va[c].pc = "awaitMeta"
    /\ UNCHANGED callVars
    /\ AnswerGetReleaseInfo(ans)
    /\ va' = [va EXCEPT ![c] =
                FetchVariability(va[c], ReleaseReturned(nextOid, ans))]
    /\ nextOid' = IF ans.ok THEN nextOid + 1 ELSE nextOid
    /\ UNCHANGED << eventVars, refreshVars >>

\* Lines 1077-1083: the fetch is answered: the parsed JSON is returned, a
\* non-success status throws, a network fault rejects the call.
VarFetchAnswer(c, kind) ==
    /\ va[c].pc = "awaitFetch"
    /\ UNCHANGED callVars
    /\ va' = [va EXCEPT ![c].pc = IF kind = "ok" THEN "done" ELSE "rejected",
                        ![c].outcome = kind]
    /\ UNCHANGED << nextOid, releaseVars, eventVars, refreshVars >>

\* ------------------------------------------------- the parsers on their own
\* No call made.
NoParse == [pc |-> "none", n |-> 0, values |-> <<>>,
            csv |-> [header |-> <<>>, rows |-> <<>>],
            site |-> transformRawSites(<<"TWL_Baguida_TOGO">>)[1],
            result |-> NoForecast]
NoXtrem == [pc |-> "none", csv |-> [header |-> <<>>, rows |-> <<>>],
            events |-> <<>>]
NoRisk == [pc |-> "none", v1 |-> 0, v2 |-> 0, thresh |-> 0,
           risk_classes |-> <<0, 0>>, r1 |-> "", r2 |-> ""]
NoView == [pc |-> "none", fn |-> "", site |-> "", eventId |-> Empty,
           eventData |-> NoCatalog, west |-> FALSE, result |-> <<>>]

\* The i-th TWL value of a forecast file (0.0001 m): all positive, all
\* negative, all zero, or alternating in sign.
TwlSample(i, pattern) ==
    LET level == 10000 + ((i * 37) % 101) * 13
    IN  CASE pattern = "positive" -> level
          [] pattern = "negative" -> 0 - level
          [] pattern = "zero" -> 0
          [] OTHER -> IF i % 2 = 0 THEN level ELSE 0 - level

\* A forecast file whose n parseable rows carry values; with junk, every
\* tenth line is a line parseFloat cannot read or a line without the column.
ForecastText(values, junk) ==
    LET n == Len(values)
        m == IF junk /\ n > 0 THEN n + ((n - 1) \div 9) ELSE n
    IN  [header |-> <<"time", "total_water_level">>,
         rows |-> [j \in 1..m |->
                     IF ~junk THEN <<Text, Num(values[j])>>
                     ELSE IF j % 20 = 0 THEN <<Text>>
                     ELSE IF j % 10 = 0 THEN <<Text, Text>>
                     ELSE <<Text, Num(values[j - (j \div 10)])>>]]

\* The numbers of parseable rows tried: whole days up to MaxExtraDays past
\* the horizon, plus a trailing part of a day around the quarter-day limit.
RowCounts ==
    {d * DATA_POINTS_PER_DAY + r :
        d \in 0..(NUM_DAYS + MaxExtraDays - 1),
        r \in {0, 20, (DATA_POINTS_PER_DAY \div 4) - 1,
               DATA_POINTS_PER_DAY \div 4, DATA_POINTS_PER_DAY - 1}}

ForecastInputs ==
    {[n |-> n,
      values |-> [i \in 1..n |-> TwlSample(i, p)],
      csv |-> ForecastText([i \in 1..n |-> TwlSample(i, p)], junk)] :
        n \in RowCounts,
        p \in {"positive", "negative", "zero", "mixed"},
        junk \in BOOLEAN}

\* Line 313: parseForecastCSV(csvText, site) on the text of the call.
ParseForecast ==
    /\ parsed.pc = "text"
    /\ parsed' = [parsed EXCEPT
                    !.pc = "parsed",
                    !.result = parseForecastCSV(parsed.csv, parsed.site,
                                                SELECTED_RUNTIME_DATE)]
    /\ UNCHANGED << releaseVars, eventVars, refreshVars, nextOid, va,
                    xtrem, risk, view >>

\* The water levels and bounds tried on classifyRisk.
Levels == (0 - 1)..MaxLevel

\* Line 359: classifyRisk(max_twl, site.threshold, site.risk_class), for two
\* water levels against the same site.
ClassifyRisk ==
    /\ risk.pc = "args"
    /\ risk' = [risk EXCEPT
                  !.pc = "classified",
                  !.r1 = classifyRisk(risk.v1, risk.thresh, risk.risk_classes),
                  !.r2 = classifyRisk(risk.v2, risk.thresh, risk.risk_classes)]
    /\ UNCHANGED << releaseVars, eventVars, refreshVars, nextOid, va,
                    parsed, xtrem, view >>

\* A numeric cell of an event row: a level in steps of 0.5001 m.
LevelCell(l) == Num(l * 5001)

LevelCells == {LevelCell(l) : l \in Levels}

\* A catalog header without the surge (ssh) column.
XtremHeaderNoSurge ==
    << {"peak_date_time"}, {"peak_value"}, {"tide"}, {"runup"},
       {"significant"}, {"duration_hours"} >>

\* One line of a catalog file under the header with or without the surge
\* column.
XtremLine(withSurge, date, peak, tide, surge, runup) ==
    IF withSurge
    THEN <<date, peak, tide, surge, runup, Num(12000), Num(60000)>>
    ELSE <<date, peak, tide, runup, Num(12000), Num(60000)>>

\* The lines tried: every mix of a date field, a peak, a tide, a surge and a
\* runup, the row tide=1.0, surge=0, runup=0.3, peak=1.5, a row whose tide
\* of 0.0012 m is above its peak of 0.001 m, and a line that holds a date
\* and nothing else.
XtremLines(withSurge) ==
    {XtremLine(withSurge, date, peak, tide, surge, runup) :
        date \in {Date(20200115), Text, Empty},
        peak \in LevelCells \cup {Text, Infinite},
        tide \in LevelCells \cup {Empty},
        surge \in LevelCells \cup {Empty},
        runup \in LevelCells}
      \cup {XtremLine(withSurge, Date(20200115), Num(15000), Num(10000),
                      Num(0), Num(3000)),
            XtremLine(withSurge, Date(20200115), Num(10), Num(12),
                      Empty, Num(0)),
            <<Date(20200115)>>}

\* A catalog file: the line under test between two lines that are events.
XtremText(withSurge, line) ==
    [header |-> IF withSurge THEN XtremHeader ELSE XtremHeaderNoSurge,
     rows |-> << XtremLine(withSurge, Date(20190301), Num(18000), Num(10000),
                           Num(5000), Num(3000)),
                 line,
                 XtremLine(withSurge, Date(20190701), Num(22000), Num(12000),
                           Num(4000), Num(5000)) >>]

\* Line 923: parseXtremEventCSV(csvText) on the text of the call.
ParseXtrem ==
    /\ xtrem.pc = "text"
    /\ xtrem' = [xtrem EXCEPT
                   !.pc = "parsed",
                   !.events = parseXtremEventCSV(xtrem.csv)]
    /\ UNCHANGED << releaseVars, eventVars, refreshVars, nextOid, va,
                    parsed, risk, view >>

\* ------------------------------------------------------------ the program
\* The page after script.js has been evaluated.
PageInit ==
    /\ RELEASE_INFO = NoRelease
    /\ EVENT_DATA_CACHE = [s \in SiteIds |-> NoCatalog]
    /\ ev = [c \in EvCalls |-> IdleEv]
    /\ nextOid = 1
    /\ metaRequests = 0
    /\ metaOk = 0
    /\ metaFailed = 0
    /\ catFetches = [s \in SiteIds |-> 0]
    /\ SELECTED_RUNTIME_DATE = Today
    /\ SELECTED_RUN_DATE \in {0, Today}
    /\ SITES = <<>>
    /\ sitesBy = 0
    /\ errorMessage = NoMessage
    /\ cyc = [k \in Cycles |-> IdleCycle]
    /\ va = [c \in VarCalls |-> IdleVar]

Init ==
    /\ PageInit
    /\ parsed = NoParse
    /\ xtrem = NoXtrem
    /\ risk = NoRisk
    /\ view = NoView

\* A forecast text has arrived for a site of the registry.
InitForecast ==
    /\ PageInit
    /\ view = NoView
    /\ xtrem = NoXtrem
    /\ risk = NoRisk
    /\ \E in \in ForecastInputs, id \in SiteIds :
          parsed = [pc |-> "text", n |-> in.n, values |-> in.values,
                    csv |-> in.csv, site |-> transformRawSites(<<id>>)[1],
                    result |-> NoForecast]

\* Two water levels are to be classified against the bounds of a site.
InitRisk ==
    /\ PageInit
    /\ view = NoView
    /\ SELECTED_RUN_DATE = Today
    /\ parsed = NoParse
    /\ xtrem = NoXtrem
    /\ \E v1 \in Levels, v2 \in Levels, t \in Levels, h \in Levels,
          s \in Levels :
          risk = [pc |-> "args", v1 |-> v1, v2 |-> v2, thresh |-> t,
                  risk_classes |-> <<h, s>>, r1 |-> "", r2 |-> ""]

\* A catalog text has arrived.
InitXtrem ==
    /\ PageInit
    /\ view = NoView
    /\ SELECTED_RUN_DATE = Today
    /\ parsed = NoParse
    /\ risk = NoRisk
    /\ \E withSurge \in BOOLEAN :
          \E line \in XtremLines(withSurge) :
             xtrem = [pc |-> "text", csv |-> XtremText(withSurge, line),
                      events |-> <<>>]

\* The historical tab: calls of fetchAndParseXtremEvents.
NextEvents ==
    \/ \E c \in EvCalls, s \in SiteIds : EvStart(c, s)
    \/ \E c \in EvCalls, ans \in MetaAnswers : EvMetaAnswer(c, ans)
    \/ \E c \in EvCalls : EvResolved(c)
    \/ \E c \in EvCalls, ans \in CatalogAnswers : EvFetchAnswer(c, ans)

\* The historical tab: calls of fetchVariabilityAnalysis.
NextVariability ==
    \/ \E c \in VarCalls, s \in SiteIds : VarStart(c, s)
    \/ \E c \in VarCalls, ans \in MetaAnswers : VarMetaAnswer(c, ans)
    \/ \E c \in VarCalls, kind \in VariabilityAnswers :
          VarFetchAnswer(c, kind)

\* The forecast tab: refresh cycles.
NextRefresh ==
    \/ OnLoad
    \/ \E k \in Cycles, d \in DateInputs : DateChange(k, d)
    \/ \E k \in Cycles, ans \in MetaAnswers : RefMetaAnswer(k, ans)
    \/ \E k \in Cycles, ans \in RegistryAnswers : RefSitesAnswer(k, ans)
    \/ \E k \in Cycles, ans \in RegistryAnswers : RefLocalAnswer(k, ans)
    \/ \E k \in Cycles, s \in SiteIds, ans \in MetaAnswers :
          FcMetaAnswer(k, s, ans)
    \/ \E k \in Cycles, s \in SiteIds, ans \in ForecastAnswers :
          FcFetchAnswer(k, s, ans)
    \/ \E k \in Cycles : RefJoin(k)

Next == NextEvents \/ NextVariability \/ NextRefresh

\* The whole page.
Spec == Init /\ [][Next]_vars

\* The page with only catalog requests, and with only refresh cycles.
SpecEvents == Init /\ [][NextEvents]_vars

SpecRefresh == Init /\ [][NextRefresh]_vars

\* The historical tab with the event selector: catalog requests and a call
\* of fetchEventComponentData.
NextComponents ==
    \/ NextEvents
    \/ \E s \in ViewSites, e \in EventIds : FetchEventComponentData(s, e)

SpecComponents == Init /\ [][NextComponents]_vars

\* The forecast files tried for their header: no text at all, and every
\* header below over no data line, a quarter of a day, or a whole day.
HeaderTexts ==
    {[header |-> <<>>, rows |-> <<>>]}
      \cup {[header |-> h,
             rows |-> [j \in 1..n |-> <<Text, Num(TwlSample(j, "positive")),
                                        Num(TwlSample(j, "mixed"))>>]] :
               h \in {<<"time", "total_water_level">>,
                      <<"Time", "Total_Water_Level">>,
                      <<"time", " TOTAL_WATER_LEVEL ">>,
                      <<"time", "twl", "total_water_level\r">>,
                      <<"time", "total_water_level_m">>,
                      <<"time", "max_total_water_level", "twl">>,
                      <<"time", "twl">>,
                      <<"time">>},
               n \in {0, DATA_POINTS_PER_DAY \div 4, DATA_POINTS_PER_DAY}}

\* The catalog files tried for their header: no text at all, and every
\* header below over no data line, one line, or two.
XtremHeaderTexts ==
    {[header |-> <<>>, rows |-> <<>>]}
      \cup {[header |-> h, rows |-> SubSeq(lines, 1, n)] :
               h \in {XtremHeader,
                      XtremHeaderNoSurge,
                      << {"peak_date_time"}, {"tide"}, {"ssh"}, {"runup"},
                         {"significant"}, {"duration_hours"} >>,
                      << {"peak_value"}, {"tide"}, {"ssh"}, {"runup"},
                         {"significant"}, {"duration_hours"} >>,
                      << {"tide"}, {"ssh"}, {"runup"} >>,
                      << {"peak_date_time", "peak_value"} >>},
               lines \in {<< <<Date(20190301), Num(18000), Num(10000),
                               Num(5000), Num(3000), Num(12000), Num(60000)>>,
                             <<Date(20200115), Num(22000), Num(12000),
                               Num(4000), Num(5000), Num(12000),
                               Num(60000)>> >>},
               n \in 0..2}

\* A forecast text and a catalog text have arrived, well-formed or not.
InitHeaders ==
    /\ PageInit
    /\ view = NoView
    /\ SELECTED_RUN_DATE = Today
    /\ risk = NoRisk
    /\ \E csv \in HeaderTexts :
          parsed = [pc |-> "text", n |-> 0, values |-> <<>>, csv |-> csv,
                    site |-> transformRawSites(<<"TWL_Baguida_TOGO">>)[1],
                    result |-> NoForecast]
    /\ \E csv \in XtremHeaderTexts :
          xtrem = [pc |-> "text", csv |-> csv, events |-> <<>>]

\* Both parsers on texts with and without the required columns.
SpecHeaders == InitHeaders /\ [][ParseForecast \/ ParseXtrem]_vars

\* The lines of the catalog files tried on the views: events of two years,
\* two of them in the same January, one on the first day of a year, one
\* with a peak of 1.5003 m, and one whose date field is not a date.
ViewLines ==
    {<<d[1], Num(d[2]), Num(10000), Num(5000), Num(3000), Num(d[3]),
       Num(d[4])>> :
        d \in {<<Date(20190301), 18000, 12000, 60000>>,
               <<Date(20190701), 22000, 15000, 80000>>,
               <<Date(20200101), 15000, 9000, 30000>>,
               <<Date(20200115), 20000, 11000, 40000>>,
               <<Date(20200120), 20000, 13000, 50000>>,
               <<Date(20210310), 15003, 14000, 70000>>,
               <<Text, 20000, 9000, 30000>>}}

\* A catalog has arrived for a view: built from a file of up to
\* MaxEvents lines, in a browser whose time zone is west of Greenwich or
\* not.
InitViews ==
    /\ PageInit
    /\ SELECTED_RUN_DATE = Today
    /\ parsed = NoParse
    /\ xtrem = NoXtrem
    /\ risk = NoRisk
    /\ \E n \in 0..MaxEvents, west \in BOOLEAN :
          \E rows \in [1..n -> ViewLines] :
             view = [NoView EXCEPT
                       !.pc = "catalog",
                       !.west = west,
                       !.eventData =
                          CatalogOf(1, [header |-> XtremHeader,
                                        rows |-> rows])]

\* Lines 1163, 1221, 1245: a view computes its result from the catalog.
JointProbability ==
    /\ view.pc = "catalog"
    /\ view' = [view EXCEPT
                  !.pc = "returned",
                  !.fn = "fetchJointProbabilityData",
                  !.result = fetchJointProbabilityData(view.eventData)]
    /\ UNCHANGED << releaseVars, eventVars, refreshVars, nextOid, va,
                    parsed, xtrem, risk >>

Seasonal ==
    /\ view.pc = "catalog"
    /\ view' = [view EXCEPT
                  !.pc = "returned",
                  !.fn = "fetchSeasonalData",
                  !.result = fetchSeasonalData(view.eventData, view.west)]
    /\ UNCHANGED << releaseVars, eventVars, refreshVars, nextOid, va,
                    parsed, xtrem, risk >>

Interannual ==
    /\ view.pc = "catalog"
    /\ view' = [view EXCEPT
                  !.pc = "returned",
                  !.fn = "fetchInterannualData",
                  !.result = fetchInterannualData(view.eventData, view.west)]
    /\ UNCHANGED << releaseVars, eventVars, refreshVars, nextOid, va,
                    parsed, xtrem, risk >>

\* The three catalog views on their own.
SpecViews == InitViews /\ [][JointProbability \/ Seasonal \/ Interannual]_vars

\* parseForecastCSV on its own.
SpecForecast == InitForecast /\ [][ParseForecast]_vars

\* classifyRisk on its own.
SpecRisk == InitRisk /\ [][ClassifyRisk]_vars

\* parseXtremEventCSV on its own.
SpecXtrem == InitXtrem /\ [][ParseXtrem]_vars

\* ================================================================= claims
Range(f) == {f[i] : i \in DOMAIN f}

\* The calls of fetchAndParseXtremEvents made for siteId so far.
EvCallsFor(siteId) ==
    {c \in EvCalls : ev[c].pc # "idle" /\ ev[c].site = siteId}

\* c returned before every other call for its site started.
FirstForSite(c) ==
    \A d \in EvCallsFor(ev[c].site) \ {c} : c \in ev[d].after

\* c ended in one of the failures of the catalog request.
EvFailed(c) ==
    ev[c].pc = "done" /\ ev[c].outcome \in {"notfound", "http", "net"}

\* C1: under any interleaving of fetchAndParseXtremEvents calls, at most one
\* catalog fetch is performed per siteId for the process lifetime.
OneCatalogFetchPerSite == \A s \in SiteIds : catFetches[s] <= 1

\* C2: EVENT_DATA_CACHE is additive-only: once a key holds a catalog object,
\* no later step replaces the object stored under that key.
CacheAdditiveOnly ==
    [][\A s \in SiteIds :
          EVENT_DATA_CACHE[s].oid # 0
              => EVENT_DATA_CACHE'[s] = EVENT_DATA_CACHE[s]]_vars

\* Two calls for one site, the second started after the first returned, and
\* no other call for that site.
Sequential(c1, c2) ==
    /\ c1 # c2
    /\ ev[c1].pc = "done" /\ ev[c2].pc = "done"
    /\ ev[c1].site = ev[c2].site
    /\ c1 \in ev[c2].after
    /\ EvCallsFor(ev[c1].site) = {c1, c2}

FailureYieldsStoredEmptyCatalog ==
    \A c \in EvCalls :
        /\ ev[c].pc # "rejected"
        /\ EvFailed(c)
              => /\ ev[c].result.oid # 0
                 /\ ev[c].result.count = 0
                 /\ ev[c].result.events = <<>>
                 /\ FirstForSite(c)
                       => /\ EVENT_DATA_CACHE[ev[c].site] = ev[c].result
                          /\ catFetches[ev[c].site] = Len(ev[c].fetched)
                          /\ \A d \in EvCallsFor(ev[c].site) \ {c} :
                                /\ ev[d].pc = "done"
                                /\ ev[d].outcome = "hit"
                                /\ ev[d].result = ev[c].result
                                /\ ev[d].fetched = <<>>

\* C4's case: a first call whose fetch ended in a network fault, followed by
\* a second call for the same site.
FailureThenHitWitness ==
    \E c, d \in EvCalls :
        /\ EvFailed(c) /\ ev[c].outcome = "net" /\ FirstForSite(c)
        /\ d \in EvCallsFor(ev[c].site) \ {c}
        /\ ev[d].pc = "done"

\* Two refresh cycles have both assigned their results, and no later cycle has
\* started.
BothCompleted(j, k) ==
    /\ j < k
    /\ cyc[j].pc = "done" /\ cyc[k].pc = "done"
    /\ \A m \in Cycles : m > k => cyc[m].pc = "idle"

\* C5: once a refresh cycle and a newer one that superseded it have both
\* completed, SITES holds the results of the newer cycle.
NewerCycleWins ==
    \A j, k \in Cycles : BothCompleted(j, k) => sitesBy = k

\* C6: a failure of one site's forecast call (asset missing, non-success
\* status, network fault, or an error while building the request) never
\* rejects the join: a cycle that loaded a registry with sites does not end in
\* the fatal error.
ForecastFailureNeverRejectsJoin ==
    \A k \in Cycles :
        cyc[k].pc = "fatal"
            => cyc[k].message.kind \in {"network", "load", "nosites"}

\* C7 as stated: after a release-metadata fetch has failed, no later call
\* issues another metadata request.
NoMetaRequestAfterFailure ==
    [][metaFailed >= 1 => metaRequests' = metaRequests]_vars

\* C7 as amended: a failed metadata fetch is reported as null to the call
\* that issued it and is not remembered: RELEASE_INFO stays null until a
\* fetch succeeds, and every call that reaches getReleaseInfo while
\* RELEASE_INFO is null issues a new metadata request.
FailedMetadataIsRetried ==
    [][/\ metaFailed' > metaFailed => RELEASE_INFO' = RELEASE_INFO
       /\ metaOk = 0 => RELEASE_INFO = NoRelease
       /\ \A c \in EvCalls :
             /\ (/\ ev[c].pc = "idle" /\ ev'[c].pc # "idle"
                 /\ ev'[c].outcome # "hit"
                 /\ RELEASE_INFO = NoRelease)
                   => /\ metaRequests' = metaRequests + 1
                      /\ ev'[c].pc = "awaitMeta"
             /\ (/\ ev[c].pc = "awaitMeta" /\ ev'[c].pc # "awaitMeta"
                 /\ metaFailed' > metaFailed)
                   => ev'[c].info = NoRelease]_vars

\* C7's case: a call whose metadata request failed has returned, and a later
\* call is waiting for the answer to a new metadata request.
MetaRetriedAfterFailure ==
    \E c, d \in EvCalls :
        /\ ev[c].pc = "done" /\ ev[c].outcome = "notfound"
        /\ c \in ev[d].after
        /\ ev[d].pc = "awaitMeta"
        /\ metaFailed >= 1 /\ metaOk = 0

\* C8: across any sequence or interleaving of getAssetDownloadUrl calls at
\* most one successful metadata request is made.
MetadataFetchedOnce == metaOk <= 1

RegistryFailureTriesLocalOnce ==
    \A k \in Cycles :
        (/\ cyc[k].pc = "fatal"
         /\ cyc[k].message.kind \in {"network", "load"}
         /\ cyc[k].fetched[1] = "github")
            => /\ cyc[k].fetched = <<"github", "local">>
               /\ cyc[k].message.kind = "load"
               /\ cyc[k].message.url = "local"
               /\ cyc[k].message.status # ""

\* SITES is the complete result list of refresh cycle k: one entry per site
\* of the registry the cycle loaded, in its order, each with the forecastData
\* of the cycle's own call for that site, all calls for one run date.
SitesOfCycle(k) ==
    /\ Len(SITES) = Len(cyc[k].sites)
    /\ \A i \in 1..Len(SITES) :
          /\ SITES[i].id = cyc[k].sites[i].id
          /\ SITES[i].name = cyc[k].sites[i].name
          /\ SITES[i].threshold = cyc[k].sites[i].threshold
          /\ SITES[i].risk_class = cyc[k].sites[i].risk_class
          /\ SITES[i].forecastData = cyc[k].sub[SITES[i].id].forecastData
          /\ cyc[k].sub[SITES[i].id].runDate = cyc[k].sub[SITES[1].id].runDate

\* C11: SITES is replaced wholesale and never merged: in every reachable state
\* it is its initial empty list or exactly the complete result list of one
\* single refresh cycle that has completed, never a mixture of two cycles.
SitesReplacedWholesale ==
    \/ SITES = <<>>
    \/ \E k \in Cycles : cyc[k].pc = "done" /\ SitesOfCycle(k)

\* C11's case: two cycles have completed with different results and SITES
\* holds a list with entries.
TwoCyclesAssignedWitness ==
    /\ \A k \in Cycles : cyc[k].pc = "done"
    /\ Results(cyc[1]) # Results(cyc[2])
    /\ Len(SITES) = 2

\* The call of parseForecastCSV has returned.
ForecastParsed == parsed.pc = "parsed"

\* The retained rows left over after whole days.
TrailingRows == parsed.n % DATA_POINTS_PER_DAY

HorizonRows == NUM_DAYS * DATA_POINTS_PER_DAY

\* C12 as stated: hourly.length == 24 * daily.length for every series
\* parseForecastCSV returns, short input included.
HourlyIsTwentyFourPerDay ==
    ForecastParsed
        => Len(parsed.result.hourly) = 24 * Len(parsed.result.daily)

\* C12 as amended: hourly.length == 24 * daily.length when the retained rows
\* are a whole number of days within the 7-day horizon; daily and hourly are
\* not truncated together: with a trailing part of a day below the quarter-day
\* limit, or rows beyond the horizon, hourly is longer than 24 * daily.length,
\* and with a longer trailing part that is emitted as a day it is not longer.
HourlyMatchesWholeDaysOnly ==
    ForecastParsed
        => LET h == Len(parsed.result.hourly)
               d == Len(parsed.result.daily)
           IN  /\ (TrailingRows = 0 /\ parsed.n <= HorizonRows) => h = 24 * d
               /\ (parsed.n > HorizonRows
                     \/ (TrailingRows > 0 /\ 4 * TrailingRows < DATA_POINTS_PER_DAY))
                     => h > 24 * d
               /\ (parsed.n < HorizonRows /\ 4 * TrailingRows >= DATA_POINTS_PER_DAY)
                     => h <= 24 * d

\* C12's case: three days and 20 more rows give 3 daily entries and 76 hourly
\* values.
ShortTrailingDayWitness ==
    /\ ForecastParsed
    /\ parsed.n = 3 * DATA_POINTS_PER_DAY + 20
    /\ Len(parsed.result.daily) = 3
    /\ Len(parsed.result.hourly) = 76

\* min(7, floor(n/144) + (1 if n mod 144 >= 36 else 0))
ExpectedDays(n) ==
    LET days == (n \div 144) + (IF n % 144 >= 36 THEN 1 ELSE 0)
    IN  IF days > 7 THEN 7 ELSE days

\* C13: for n retained rows parseForecastCSV emits the days 0, 1, ... in order
\* and stops at the first window of fewer than 36 rows:
\* daily.length = min(7, floor(n/144) + (1 if n mod 144 >= 36 else 0)), never
\* more than 7.
DailyStopsAtShortWindow ==
    ForecastParsed
        => /\ Len(parsed.result.daily) = ExpectedDays(parsed.n)
           /\ Len(parsed.result.daily) <= 7
           /\ \A i \in 1..Len(parsed.result.daily) :
                 /\ (i = 1) => parsed.result.daily[i].fullDate
                                  = SELECTED_RUNTIME_DATE
                 /\ (i > 1) => parsed.result.daily[i].fullDate
                                  > parsed.result.daily[i - 1].fullDate

\* C13's case: a file with junk lines and 144*3+35 parseable rows gives three
\* days.
PartialDayDroppedWitness ==
    /\ ForecastParsed
    /\ parsed.n = 3 * 144 + 35
    /\ Len(parsed.csv.rows) > parsed.n
    /\ Len(parsed.result.daily) = 3

\* The retained values of day window i (from 1).
WindowValues(i) ==
    {parsed.values[j] :
        j \in ((i - 1) * DATA_POINTS_PER_DAY + 1)..
              (IF i * DATA_POINTS_PER_DAY > parsed.n THEN parsed.n
               ELSE i * DATA_POINTS_PER_DAY)}

Maximum(S) == CHOOSE m \in S : \A x \in S : m >= x

\* C14: for every daily entry, max_water_level is the maximum TWL observed in
\* the retained rows of its window, rounded to 3 decimals, whatever the sign of
\* the values.
DailyMaxIsWindowMaximum ==
    ForecastParsed
        => \A i \in 1..Len(parsed.result.daily) :
              parsed.result.daily[i].max_water_level
                  = Round3(Maximum(WindowValues(i)))

\* C15 as stated: hourly[k] is the value of retained row 6*k, and
\* hourly.length = ceil(n/6).
HourlyIsEverySixthValue ==
    ForecastParsed
        => /\ Len(parsed.result.hourly) = (parsed.n + 5) \div 6
           /\ \A k \in 1..Len(parsed.result.hourly) :
                 parsed.result.hourly[k] = parsed.values[6 * (k - 1) + 1]

\* C15 as amended: hourly is derived from the full retained row set,
\* independently of the day windows: hourly[k] is the value of retained row
\* 6*k rounded to 3 decimals, for every k with 6*k < n, so
\* hourly.length = ceil(n/6).
HourlyIsEverySixthValueRounded ==
    ForecastParsed
        => /\ Len(parsed.result.hourly) = (parsed.n + 5) \div 6
           /\ \A k \in 1..Len(parsed.result.hourly) :
                 LET v == parsed.values[6 * (k - 1) + 1]
                 IN  /\ parsed.result.hourly[k] - v \in -5..5
                     /\ parsed.result.hourly[k] % 10 = 0

\* C15's case: exactly 144*7 rows give 168 hourly values, the first of them
\* changed by the rounding.
FullHorizonHourlyWitness ==
    /\ ForecastParsed
    /\ parsed.n = 144 * 7
    /\ Len(parsed.result.hourly) = 168
    /\ parsed.result.hourly[1] # parsed.values[1]

\* The calls of classifyRisk have returned.
Classified == risk.pc = "classified"

RiskLabels == <<"No Flood", "Warning", "High Risk", "Severe Flood">>

\* The place of a label in the order No Flood < Warning < High Risk < Severe
\* Flood.
Rank(label) == CHOOSE i \in 1..4 : RiskLabels[i] = label

\* C16: classifyRisk(v, t, [h, s]) is total and is the step function:
\* No Flood if v < t; otherwise Warning if v < h; otherwise High Risk if
\* v < s; otherwise Severe Flood; a value equal to a bound falls into the
\* higher band.
RiskIsStepFunction ==
    Classified
        => LET v == risk.v1
               t == risk.thresh
               h == risk.risk_classes[1]
               s == risk.risk_classes[2]
           IN  /\ \E i \in 1..4 : risk.r1 = RiskLabels[i]
               /\ risk.r1 = "No Flood" <=> v < t
               /\ risk.r1 = "Warning" <=> (v >= t /\ v < h)
               /\ risk.r1 = "High Risk" <=> (v >= t /\ v >= h /\ v < s)
               /\ risk.r1 = "Severe Flood" <=> (v >= t /\ v >= h /\ v >= s)

\* C16's case: a level equal to the high bound of ordered bounds is High
\* Risk.
LevelOnBoundWitness ==
    /\ Classified
    /\ risk.thresh < risk.risk_classes[1]
    /\ risk.risk_classes[1] < risk.risk_classes[2]
    /\ risk.v1 = risk.risk_classes[1]
    /\ risk.r1 = "High Risk"

\* C17: for all t < h < s, classifyRisk is monotonically non-decreasing in
\* the level, and classify(t) = Warning, classify(h) = High Risk,
\* classify(s) = Severe Flood.
RiskIsMonotone ==
    (/\ Classified
     /\ risk.thresh < risk.risk_classes[1]
     /\ risk.risk_classes[1] < risk.risk_classes[2])
        => /\ risk.v1 <= risk.v2 => Rank(risk.r1) <= Rank(risk.r2)
           /\ risk.v1 = risk.thresh => risk.r1 = "Warning"
           /\ risk.v1 = risk.risk_classes[1] => risk.r1 = "High Risk"
           /\ risk.v1 = risk.risk_classes[2] => risk.r1 = "Severe Flood"

\* C17's case: with ordered bounds, a lower level is No Flood and a higher
\* one is Severe Flood.
RiskRisesWitness ==
    /\ Classified
    /\ risk.thresh < risk.risk_classes[1]
    /\ risk.risk_classes[1] < risk.risk_classes[2]
    /\ risk.v1 < risk.v2
    /\ risk.r1 = "No Flood"
    /\ risk.r2 = "Severe Flood"

\* The call of parseXtremEventCSV has returned.
XtremParsed == xtrem.pc = "parsed"

\* The line under test and its fields as the file spells them.
WithSurge == Len(xtrem.csv.header) = Len(XtremHeader)
Line == xtrem.csv.rows[2]
Field(i) == IF i <= Len(Line) THEN Line[i] ELSE Undefined
DateField == Field(1)
PeakField == Field(2)
TideField == Field(3)
SurgeField == IF WithSurge THEN Field(4) ELSE Undefined
RunupField == Field(IF WithSurge THEN 5 ELSE 4)

\* The number a component field stands for: 0 when it is empty or missing.
Component(cell) == IF cell.k = "num" THEN cell.v ELSE 0

\* The line under test became an event, which is then the second of three.
LineKept == Len(xtrem.events) = 3
LineEvent == xtrem.events[2]

\* The surge column is absent, the surge is <= 0, or tide + surge + runup
\* exceeds 1.05 times a finite peak.
SurgeToReplace ==
    \/ ~WithSurge
    \/ Component(SurgeField) <= 0
    \/ /\ PeakField.k = "num"
       /\ 100 * (Component(TideField) + Component(SurgeField)
                    + Component(RunupField)) > 105 * PeakField.v

\* C18: the surge of a row is replaced by twl_peak - tide - runup rounded to 3
\* decimals if and only if the surge column is absent, the parsed surge is
\* <= 0, or tide + surge + runup > 1.05 * twl_peak; otherwise the surge of the
\* file is kept unchanged (tide=1.0, surge=0, runup=0.3, peak=1.5 gives 0.2).
SurgeIsResidualWhenOff ==
    (XtremParsed /\ LineKept)
        => LET out == LineEvent.twl_components[2]
           IN  IF ~SurgeToReplace THEN out = Component(SurgeField)
               ELSE IF PeakField.k = "inf" THEN out = Infinity
               ELSE /\ out % 10 = 0
                    /\ out - (PeakField.v - Component(TideField)
                                 - Component(RunupField)) \in -5..5

\* C18's case: the row tide=1.0, surge=0, runup=0.3, peak=1.5 is an event
\* with surge 0.2.
ResidualSurgeWitness ==
    /\ XtremParsed /\ LineKept /\ WithSurge
    /\ PeakField = Num(15000) /\ TideField = Num(10000)
    /\ SurgeField = Num(0) /\ RunupField = Num(3000)
    /\ LineEvent.twl_components = <<10000, 2000, 3000>>

\* The surge of the line after the correction, by the rule of C18.
SurgeAfterCorrection ==
    IF SurgeToReplace
    THEN Round3(PeakField.v - Component(TideField) - Component(RunupField))
    ELSE Component(SurgeField)

\* C19: a row becomes an event if and only if its date field is present,
\* twl_peak parses to a finite number > 0, and tide, surge (after the residual
\* correction) and runup are all >= 0; every other row is dropped without
\* aborting the parse.
RowKeptIffValid ==
    XtremParsed
        => /\ LineKept <=>
                 /\ DateField.k \in {"date", "text"}
                 /\ PeakField.k = "num" /\ PeakField.v > 0
                 /\ Component(TideField) >= 0
                 /\ SurgeAfterCorrection >= 0
                 /\ Component(RunupField) >= 0
           /\ Len(xtrem.events) \in {2, 3}
           /\ xtrem.events[1].id = Date(20190301)
           /\ xtrem.events[Len(xtrem.events)].id = Date(20190701)

\* C20: every event retained in a catalog has a valid date: its id parses to
\* a real calendar date.
RetainedEventsHaveValidDate ==
    XtremParsed
        => \A i \in 1..Len(xtrem.events) : xtrem.events[i].id.k = "date"

\* The events of a catalog are in date-descending order: every event has a
\* date and no event is dated before the one that follows it.
DateDescending(events) ==
    \A i \in 1..Len(events) :
        /\ events[i].id.k = "date"
        /\ i < Len(events) => events[i].id.v >= events[i + 1].id.v

\* C21: every catalog stored in EVENT_DATA_CACHE and returned by
\* getSiteEvents has its events ordered by date descending.
CatalogsSortedByDateDescending ==
    /\ \A s \in SiteIds : DateDescending(EVENT_DATA_CACHE[s].events)
    /\ \A c \in EvCalls :
          ev[c].pc = "done" => DateDescending(ev[c].result.events)

\* The header of a forecast text holds the total-water-level column: one of
\* its cells is the column name up to case and surrounding blanks.
HasTwlColumn(header) ==
    \E i \in 1..Len(header) :
        header[i] \in {"total_water_level", "Total_Water_Level",
                       " TOTAL_WATER_LEVEL ", "total_water_level\r"}

\* The header of a catalog text holds the column of the given concept.
HasColumn(header, concept) ==
    \E i \in 1..Len(header) : concept \in header[i]

\* C22: a parser never fails on a malformed file.  parseForecastCSV returns
\* empty daily and hourly series when the text has fewer than two lines or
\* no header cell is the total-water-level column, and parseXtremEventCSV
\* returns no event when the text has fewer than two lines or lacks the
\* peak-timestamp or the peak-value column.
MalformedFileYieldsEmpty ==
    /\ (/\ parsed.pc = "parsed"
        /\ (Len(parsed.csv.rows) = 0 \/ ~HasTwlColumn(parsed.csv.header)))
          => parsed.result = [daily |-> <<>>, hourly |-> <<>>]
    /\ (/\ xtrem.pc = "parsed"
        /\ \/ Len(xtrem.csv.rows) = 0
           \/ ~HasColumn(xtrem.csv.header, "peak_date_time")
           \/ ~HasColumn(xtrem.csv.header, "peak_value"))
          => xtrem.events = <<>>

\* Both parsers have read a file with data lines whose header lacks the
\* required column: a differently named level column, no peak value.
MalformedHeadersWitness ==
    /\ parsed.pc = "parsed"
    /\ Len(parsed.csv.rows) = DATA_POINTS_PER_DAY
    /\ parsed.csv.header = <<"time", "total_water_level_m">>
    /\ parsed.result = [daily |-> <<>>, hourly |-> <<>>]
    /\ xtrem.pc = "parsed"
    /\ Len(xtrem.csv.rows) = 2
    /\ HasColumn(xtrem.csv.header, "peak_date_time")
    /\ ~HasColumn(xtrem.csv.header, "peak_value")
    /\ xtrem.events = <<>>

\* The release metadata lists an asset named exactly filename.
AssetListed(info, filename) ==
    /\ info.oid # 0
    /\ info.hasAssets
    /\ \E a \in info.assets : a = filename

\* C23: getAssetDownloadUrl(filename) returns the download URL of the asset
\* whose name is exactly filename, and null when the release metadata is
\* unavailable, has no assets list, or lists no asset of that name.  Checked
\* on every resolution of a catalog file name.
AssetUrlIsExactMatchOrNull ==
    [][\A c \in EvCalls :
          (ev[c].pc = "resolving" /\ ev'[c].pc # "resolving") =>
             LET filename == XtremAssetName(ev[c].site)
                 url == AssetUrl(ev[c].info, filename)
             IN  IF AssetListed(ev[c].info, filename)
                 THEN /\ url = [origin |-> "github", name |-> filename]
                      /\ ev'[c].resolved = "github"
                      /\ ev'[c].pc = "awaitFetch"
                 ELSE /\ url = NoUrl
                      /\ ev'[c].resolved = "null"]_vars

\* One call got the URL of its catalog, and another got null from a release
\* that has an assets list without the file of its site.
ExactMatchAndMissingAssetWitness ==
    \E c \in EvCalls, d \in EvCalls :
        /\ ev[c].resolved = "github"
        /\ ev[d].resolved = "null"
        /\ ev[d].outcome = "notfound"
        /\ RELEASE_INFO.oid # 0
        /\ RELEASE_INFO.hasAssets
        /\ XtremAssetName(ev[d].site) \notin RELEASE_INFO.assets
        /\ RELEASE_INFO.assets # {}

\* The first event with the given id in the catalog cached for a site: 0
\* when the site has no entry or no cached event has the id.
CachedEvent(siteId, eventId) ==
    IF siteId \notin SiteIds THEN 0
    ELSE IF EVENT_DATA_CACHE[siteId].oid = 0 THEN 0
    ELSE LET events == EVENT_DATA_CACHE[siteId].events
         IN  IF \A i \in 1..Len(events) : events[i].id # eventId THEN 0
             ELSE CHOOSE i \in 1..Len(events) :
                     /\ events[i].id = eventId
                     /\ \A j \in 1..(i - 1) : events[j].id # eventId

\* C24: fetchEventComponentData(siteId, eventId) only reads the cache: the
\* cache, the calls in flight and the counts of requests are as before.  It
\* returns empty components and contributions when the cache has no entry
\* for the site or no cached event has the id, and otherwise the labels
\* with the event's [tide, surge, runup] and its twl_peak.
ComponentDataReadsCacheOnly ==
    [][(view.pc = "none" /\ view'.fn = "fetchEventComponentData") =>
          /\ UNCHANGED << EVENT_DATA_CACHE, ev, catFetches, RELEASE_INFO,
                          metaRequests, metaOk, metaFailed >>
          /\ LET i == CachedEvent(view'.site, view'.eventId)
             IN  IF i = 0
                 THEN /\ view'.result.components = <<>>
                      /\ view'.result.contributions = <<>>
                 ELSE LET e == EVENT_DATA_CACHE[view'.site].events[i]
                      IN  /\ Len(view'.result.components) = 3
                          /\ view'.result.contributions =
                                << e.twl_components[1], e.twl_components[2],
                                   e.twl_components[3] >>
                          /\ view'.result.twlPeak = e.twl_peak]_vars

\* The components of a cached event were returned: its surge is the
\* recomputed one, and nothing was fetched for the call.
ComponentsOfCachedEventWitness ==
    /\ view.fn = "fetchEventComponentData"
    /\ view.eventId = Date(20200101)
    /\ CachedEvent(view.site, view.eventId) # 0
    /\ view.result.contributions = <<10000, 2000, 3000>>
    /\ view.result.twlPeak = 15000

\* An id that no event of the cached, non-empty catalog has gave an empty
\* result.
ComponentsOfUnknownEventWitness ==
    /\ view.fn = "fetchEventComponentData"
    /\ view.site \in SiteIds
    /\ EVENT_DATA_CACHE[view.site].count > 0
    /\ CachedEvent(view.site, view.eventId) = 0
    /\ view.result.contributions = <<>>

\* A view has returned (or thrown) for its catalog.
ViewOf(fn) == view.pc = "returned" /\ view.fn = fn

\* The events of the catalog given to the view.
ViewEvents == view.eventData.events

\* The calendar year and month (1 to 12) written in the date of an event.
YearWritten(e) == e.id.v \div 10000
MonthWritten(e) == (e.id.v \div 100) % 100

\* The sum of a sequence of numbers.
RECURSIVE SumSeq(_)
SumSeq(q) == IF Len(q) = 0 THEN 0 ELSE q[1] + SumSeq(Tail(q))

\* The peaks of the events of a calendar year.
PeaksOfYear(y) ==
    LET mine == SelectSeq(ViewEvents,
                          LAMBDA e : e.id.k = "date" /\ YearWritten(e) = y)
    IN  [i \in 1..Len(mine) |-> mine[i].twl_peak]

\* C25: fetchInterannualData returns three sequences of equal length; the
\* years are strictly ascending and exactly the calendar years of the
\* events; for each year max_twl is the greatest twl_peak of its events and
\* events_count their number, so that the counts sum to the event count.
InterannualIsPerYearSummary ==
    ViewOf("fetchInterannualData") =>
        LET r == view.result
            n == Len(r.years)
        IN  /\ Len(r.max_twl) = n
            /\ Len(r.events_count) = n
            /\ \A i \in 1..n : r.years[i].ok
            /\ \A i \in 1..(n - 1) : r.years[i].v < r.years[i + 1].v
            /\ \A i \in 1..Len(ViewEvents) :
                  /\ ViewEvents[i].id.k = "date"
                  /\ \E k \in 1..n :
                        r.years[k] = Val(YearWritten(ViewEvents[i]))
            /\ \A k \in 1..n :
                  LET peaks == PeaksOfYear(r.years[k].v)
                  IN  /\ Len(peaks) > 0
                      /\ r.events_count[k] = Len(peaks)
                      /\ \A j \in 1..Len(peaks) : r.max_twl[k] >= peaks[j]
                      /\ \E j \in 1..Len(peaks) : r.max_twl[k] = peaks[j]
            /\ SumSeq(r.events_count) = Len(ViewEvents)

\* The summary holds for the catalogs whose events all have a date, in a
\* browser whose time zone is not west of Greenwich, with the maximum
\* rounded to 3 decimals.
InterannualOfDatedEvents ==
    (/\ ViewOf("fetchInterannualData")
     /\ ~view.west
     /\ \A i \in 1..Len(ViewEvents) : ViewEvents[i].id.k = "date") =>
        LET r == view.result
            n == Len(r.years)
        IN  /\ Len(r.max_twl) = n
            /\ Len(r.events_count) = n
            /\ \A i \in 1..n : r.years[i].ok
            /\ \A i \in 1..(n - 1) : r.years[i].v < r.years[i + 1].v
            /\ \A i \in 1..Len(ViewEvents) :
                  \E k \in 1..n :
                     r.years[k] = Val(YearWritten(ViewEvents[i]))
            /\ \A k \in 1..n :
                  LET peaks == PeaksOfYear(r.years[k].v)
                  IN  /\ Len(peaks) > 0
                      /\ r.events_count[k] = Len(peaks)
                      /\ \A j \in 1..Len(peaks) :
                            r.max_twl[k] >= Round3(peaks[j])
                      /\ \E j \in 1..Len(peaks) :
                            r.max_twl[k] = Round3(peaks[j])
            /\ SumSeq(r.events_count) = Len(ViewEvents)

\* The peaks of the events dated in month m (1 to 12), in catalog order.
PeaksOfMonth(m) ==
    LET mine == SelectSeq(ViewEvents,
                          LAMBDA e : e.id.k = "date" /\ MonthWritten(e) = m)
    IN  [i \in 1..Len(mine) |-> mine[i].twl_peak]

\* C26: fetchSeasonalData returns a mapping with exactly the twelve month
\* keys Jan to Dec; the twl_peak of each event is once in the bucket of its
\* calendar month, a month without events maps to the empty sequence, and
\* the bucket sizes sum to the event count.
SeasonalIsPerMonthBuckets ==
    ViewOf("fetchSeasonalData") =>
        /\ view.result.outcome = "returned"
        /\ DOMAIN view.result.monthlyTWL = {months[k] : k \in 1..12}
        /\ \A i \in 1..Len(ViewEvents) : ViewEvents[i].id.k = "date"
        /\ \A k \in 1..12 :
              view.result.monthlyTWL[months[k]] = PeaksOfMonth(k)
        /\ SumSeq([k \in 1..12 |-> Len(view.result.monthlyTWL[months[k]])])
              = Len(ViewEvents)

\* The buckets are as stated for the catalogs whose events all have a date,
\* in a browser whose time zone is not west of Greenwich.
SeasonalOfDatedEvents ==
    (/\ ViewOf("fetchSeasonalData")
     /\ ~view.west
     /\ \A i \in 1..Len(ViewEvents) : ViewEvents[i].id.k = "date") =>
        /\ view.result.outcome = "returned"
        /\ DOMAIN view.result.monthlyTWL = {months[k] : k \in 1..12}
        /\ \A k \in 1..12 :
              view.result.monthlyTWL[months[k]] = PeaksOfMonth(k)
        /\ SumSeq([k \in 1..12 |-> Len(view.result.monthlyTWL[months[k]])])
              = Len(ViewEvents)

\* C27: fetchJointProbabilityData returns five sequences (tide, Hs,
\* twl_peak, date, duration), each as long as the catalog has events, whose
\* i-th entries come from the i-th event of the catalog; all five are empty
\* for an empty catalog.
JointProbabilityIsProjection ==
    ViewOf("fetchJointProbabilityData") =>
        LET r == view.result
            n == Len(ViewEvents)
        IN  /\ DOMAIN r = {"tide_sla", "hs", "twl_peak", "dates", "dur_h"}
            /\ n = view.eventData.count
            /\ \A f \in DOMAIN r : Len(r[f]) = n
            /\ \A i \in 1..n :
                  /\ r.tide_sla[i] = ViewEvents[i].twl_components[1]
                  /\ r.hs[i] = ViewEvents[i].Hs
                  /\ r.twl_peak[i] = ViewEvents[i].twl_peak
                  /\ r.dates[i] = ViewEvents[i].id
                  /\ r.dur_h[i] = ViewEvents[i].dur_h

\* The view returned the columns of a catalog of MaxEvents events whose
\* significant wave heights differ from one event to the next.
JointProbabilityWitness ==
    /\ ViewOf("fetchJointProbabilityData")
    /\ Len(ViewEvents) = MaxEvents
    /\ Len(view.result.hs) = MaxEvents
    /\ \A i \in 1..(MaxEvents - 1) :
          view.result.hs[i] # view.result.hs[i + 1]

\* The run date in the name of the forecast file that the cycle which
\* assigned SITES fetched for a site.
RunDateOfFile(siteId) == cyc[sitesBy].sub[siteId].runDate

\* C28: for every site of SITES with daily data, daily[i].fullDate is the
\* run date in the name of the forecast file fetched for the site plus i
\* days, also when the run date is changed while the fetch is in flight.
FullDateFollowsFetchedRunDate ==
    sitesBy # 0 =>
        \A i \in 1..Len(SITES) :
            LET daily == SITES[i].forecastData.daily
            IN  \A j \in 1..Len(daily) :
                    daily[j].fullDate =
                        AddDays(RunDateOfFile(SITES[i].id), j - 1)

\* C29: a refresh cycle that ends in the fatal-error branch does not modify
\* SITES: the step in which a cycle fails, for whatever cause, leaves the
\* site list that was there before it.
FatalCycleLeavesSites ==
    [][\A k \in Cycles :
          (cyc[k].pc # "fatal" /\ cyc'[k].pc = "fatal") => SITES' = SITES]_vars

\* The components of an event are within 105% of its peak, up to the 0.0005
\* m that the rounding of a recomputed surge can add.  Nothing exceeds an
\* infinite peak.
WithinPeak(e) ==
    \/ e.twl_peak >= Infinity
    \/ 100 * (e.twl_components[1] + e.twl_components[2]
                 + e.twl_components[3]) <= 105 * e.twl_peak + 100 * 5

\* C30: every event returned by parseXtremEventCSV has tide + surge + runup
\* <= 1.05 * twl_peak, up to the rounding of a recomputed surge to 3
\* decimals, whether its surge is the one of the file or the residual.
ComponentsWithinPeak ==
    XtremParsed => \A i \in 1..Len(xtrem.events) : WithinPeak(xtrem.events[i])

\* A row whose components in the file add up to more than 105% of its peak
\* became an event with the residual as its surge.
OversizedSurgeReplacedWitness ==
    /\ XtremParsed /\ LineKept /\ WithSurge
    /\ PeakField.k = "num"
    /\ Component(SurgeField) > 0
    /\ 100 * (Component(TideField) + Component(SurgeField)
                 + Component(RunupField)) > 105 * PeakField.v
    /\ LineEvent.twl_components[2] # Component(SurgeField)
    /\ LineEvent.twl_components[1] + LineEvent.twl_components[2]
          + LineEvent.twl_components[3] = LineEvent.twl_peak

\* A row whose tide alone is above its peak by less than the rounding became
\* an event with surge 0.
RoundedResidualWitness ==
    /\ XtremParsed /\ LineKept
    /\ PeakField = Num(10) /\ TideField = Num(12)
    /\ LineEvent.twl_components = <<12, 0, 0>>
====
